---- MODULE Spec2Model ----
(***************************************************************************)
(* A model of the SLiM core and its scripting runtime:                     *)
(*   - Subpopulation (src/core/subpopulation.cpp): the parent and child    *)
(*     genome arrays, the fitness kernel, the fitness lookup table and the *)
(*     child/parent swap;                                                  *)
(*   - FunctionSignature, ExecuteFunctionCall, ExecuteMethodCall and the   *)
(*     built-in functions (src/unnamed/part_002, script_functions.cpp).    *)
(*                                                                         *)
(* Numbers that are doubles in the source are exact rationals here: a      *)
(* selection coefficient s is the integer selection_coeff_ over Denom, a   *)
(* dominance coefficient h is an integer over Denom, and a fitness is a    *)
(* numerator over (Denom*Denom)^MaxMut.  Floating-point rounding is not    *)
(* modelled.                                                               *)
(***************************************************************************)
EXTENDS Integers, Sequences, FiniteSets, TLC

VARIABLES subpop_size_, parent_genomes_, child_genomes_, lookup_individual_, subOp,
          sig, op,
          values, elements, valueOp,
          symbols, interp, block,
          individual, chromosome, draw, copies, tree

subVars == <<subpop_size_, parent_genomes_, child_genomes_, lookup_individual_, subOp>>
sigVars == <<sig, op>>
valueVars == <<values, elements, valueOp>>
interpVars == <<symbols, interp, block>>
extVars == <<individual, chromosome, draw, copies, tree>>
vars == <<subpop_size_, parent_genomes_, child_genomes_, lookup_individual_, subOp, sig, op,
          values, elements, valueOp, symbols, interp, block,
          individual, chromosome, draw, copies, tree>>

----------------------------------------------------------------------------
(* Bounds of the model *)

\* resolution of the exact arithmetic: s and h are multiples of 1/Denom
Denom == 2
\* largest number of mutations an individual's two genomes hold together
MaxMut == 3
\* largest subpopulation size N
MaxN == 1
\* largest number of declared arguments of a signature
MaxSigArgs == 2
\* largest number of arguments supplied in a call
MaxCallArgs == 2
\* number of slots of the heap of value objects
MaxValues == 2
\* largest number of elements of a vector value
MaxLen == 2
\* largest number of times a loop's condition holds
MaxIterations == 2
\* a probability is a number of UGrid-ths
UGrid == 4
\* largest count a non-zero Poisson draw gives
MaxCount == 2
\* number of lookup tables the allocator can hand out
MaxSamplers == 4
\* largest number of OptimizeTree calls on one tree
MaxOptimize == 2

----------------------------------------------------------------------------
(* Genetic entities *)

Positions == {1, 2, 3}
MutationTypeIds == {1, 2}

\* Chromosome::mutation_types_[id].dominance_coeff_, in units of 1/Denom:
\* type 1 has h = 1/Denom, type 2 has h = 1
dominance_coeff_ == [id \in MutationTypeIds |-> IF id = 1 THEN 1 ELSE Denom]

\* (mutation type, selection coefficient in units of 1/Denom):
\* s = -2 and s = 1/Denom for type 1, s = 0 for type 1, s = -2 for type 2
MutationKinds == {<<1, 0 - 2 * Denom>>, <<1, 1>>, <<1, 0>>, <<2, 0 - 2 * Denom>>}

Mutation == {[position_ |-> p, mutation_type_ |-> k[1], selection_coeff_ |-> k[2]] :
                p \in Positions, k \in MutationKinds}

\* a genome is a vector of mutations sorted by position (ties permitted)
IsSorted(g) == \A i \in 1..(Len(g) - 1) : g[i].position_ <= g[i + 1].position_

GenomesOfLen(n) == {g \in [1..n -> Mutation] : IsSorted(g)}

Genomes(maxlen) == UNION {GenomesOfLen(n) : n \in 0..maxlen}

----------------------------------------------------------------------------
(* Subpopulation::FitnessOfIndividualWithGenomeIndices *)

\* the running state of the kernel: the two iterators, w as numerator wn over
\* (Denom*Denom)^wk, and the cached dominance coefficient
FitnessStart == [i1 |-> 1, i2 |-> 1, wn |-> 1, wk |-> 0,
                 cached_dominance_coeff |-> 0,
                 cached_dominance_coeff_mutation_type |-> 0 - 1]

\* w *= (1.0 + cached_dominance_coeff * selection_coeff), after refreshing the cache
MultiplyHeterozygous(st, m) ==
    LET c == IF m.mutation_type_ # st.cached_dominance_coeff_mutation_type
             THEN [st EXCEPT !.cached_dominance_coeff = dominance_coeff_[m.mutation_type_],
                             !.cached_dominance_coeff_mutation_type = m.mutation_type_]
             ELSE st
    IN [c EXCEPT !.wn = @ * (Denom * Denom + c.cached_dominance_coeff * m.selection_coeff_),
                 !.wk = @ + 1]

\* w *= (1.0 + selection_coeff)
MultiplyHomozygous(st, m) ==
    [st EXCEPT !.wn = @ * (Denom * Denom + Denom * m.selection_coeff_), !.wk = @ + 1]

\* lines 138-156: mutations in genome1 at positions before genome2's iterator
RECURSIVE AdvanceGenome1(_, _, _)
AdvanceGenome1(g1, g2, st) ==
    IF st.i1 <= Len(g1) /\ (st.i2 > Len(g2) \/ g1[st.i1].position_ < g2[st.i2].position_)
    THEN LET m == g1[st.i1]
             s1 == IF m.selection_coeff_ # 0 THEN MultiplyHeterozygous(st, m) ELSE st
         IN AdvanceGenome1(g1, g2, [s1 EXCEPT !.i1 = @ + 1])
    ELSE st

\* lines 159-177: mutations in genome2 at positions before genome1's iterator
RECURSIVE AdvanceGenome2(_, _, _)
AdvanceGenome2(g1, g2, st) ==
    IF st.i2 <= Len(g2) /\ (st.i1 > Len(g1) \/ g2[st.i2].position_ < g1[st.i1].position_)
    THEN LET m == g2[st.i2]
             s1 == IF m.selection_coeff_ # 0 THEN MultiplyHeterozygous(st, m) ELSE st
         IN AdvanceGenome2(g1, g2, [s1 EXCEPT !.i2 = @ + 1])
    ELSE st

\* lines 198-209 and 239-249: scan g from index j while at position, looking for
\* a mutation of the same type and selection coefficient as m
RECURSIVE MatchScan(_, _, _, _)
MatchScan(g, j, position, m) ==
    IF j <= Len(g) /\ g[j].position_ = position
    THEN IF m.mutation_type_ = g[j].mutation_type_ /\ m.selection_coeff_ = g[j].selection_coeff_
         THEN TRUE
         ELSE MatchScan(g, j + 1, position, m)
    ELSE FALSE

\* lines 187-225: genome1's mutations at position, matched against genome2 from
\* genome2_iter
RECURSIVE SamePositionGenome1(_, _, _, _)
SamePositionGenome1(g1, g2, position, st) ==
    IF st.i1 <= Len(g1) /\ g1[st.i1].position_ = position
    THEN LET m == g1[st.i1]
             s1 == IF m.selection_coeff_ # 0
                   THEN IF MatchScan(g2, st.i2, position, m)
                        THEN MultiplyHomozygous(st, m)
                        ELSE MultiplyHeterozygous(st, m)
                   ELSE st
         IN SamePositionGenome1(g1, g2, position, [s1 EXCEPT !.i1 = @ + 1])
    ELSE st

\* lines 228-265: genome2's mutations at position, matched against genome1 from
\* genome1_start; a match multiplies nothing
RECURSIVE SamePositionGenome2(_, _, _, _, _)
SamePositionGenome2(g1, g2, position, genome1_start, st) ==
    IF st.i2 <= Len(g2) /\ g2[st.i2].position_ = position
    THEN LET m == g2[st.i2]
             s1 == IF m.selection_coeff_ # 0
                   THEN IF MatchScan(g1, genome1_start, position, m)
                        THEN st
                        ELSE MultiplyHeterozygous(st, m)
                   ELSE st
         IN SamePositionGenome2(g1, g2, position, genome1_start, [s1 EXCEPT !.i2 = @ + 1])
    ELSE st

\* lines 181-266
SamePosition(g1, g2, st) ==
    IF st.i1 <= Len(g1) /\ st.i2 <= Len(g2) /\ g2[st.i2].position_ = g1[st.i1].position_
    THEN LET position == g1[st.i1].position_
             genome1_start == st.i1
         IN SamePositionGenome2(g1, g2, position, genome1_start,
                                SamePositionGenome1(g1, g2, position, st))
    ELSE st

\* the loop of line 135: it stops as soon as w is not positive
RECURSIVE FitnessLoop(_, _, _)
FitnessLoop(g1, g2, st) ==
    IF st.wn > 0 /\ (st.i1 <= Len(g1) \/ st.i2 <= Len(g2))
    THEN FitnessLoop(g1, g2, SamePosition(g1, g2, AdvanceGenome2(g1, g2, AdvanceGenome1(g1, g2, st))))
    ELSE st

RECURSIVE Power(_, _)
Power(b, e) == IF e <= 0 THEN 1 ELSE b * Power(b, e - 1)

\* a product of k factors, each over Denom*Denom, as a numerator over
\* (Denom*Denom)^MaxMut
Normalised(n, k) == n * Power(Denom * Denom, MaxMut - k)

\* the fitness 1.0
One == Normalised(1, 0)

\* line 269: return (w < 0.0 ? 0.0 : w)
FitnessOfIndividualWithGenomeIndices(genomes, p_genome_index1, p_genome_index2) ==
    LET st == FitnessLoop(genomes[p_genome_index1 + 1], genomes[p_genome_index2 + 1], FitnessStart)
    IN IF st.wn < 0 THEN 0 ELSE Normalised(st.wn, st.wk)

----------------------------------------------------------------------------
(* Subpopulation *)

\* gsl_ran_discrete_preproc(K, A): the lookup table of K weights
gsl_ran_discrete_preproc(K, A) == [K |-> K, A |-> A]

EmptyGenome == << >>

\* Subpopulation::Subpopulation(int p_subpop_size)
Constructed(p_subpop_size) ==
    /\ subpop_size_ = p_subpop_size
    /\ parent_genomes_ = [i \in 1..(2 * p_subpop_size) |-> EmptyGenome]
    /\ child_genomes_ = [i \in 1..(2 * p_subpop_size) |-> EmptyGenome]
    /\ lookup_individual_ = gsl_ran_discrete_preproc(p_subpop_size, [i \in 1..p_subpop_size |-> One])

\* UpdateFitness with a lookup table over the genomes, not the individuals
UpdateFitness_OverGenomes ==
    /\ lookup_individual_' =
          gsl_ran_discrete_preproc(Len(parent_genomes_), [i \in 1..Len(parent_genomes_) |-> One])
    /\ subOp' = "UpdateFitness"
    /\ UNCHANGED <<subpop_size_, parent_genomes_, child_genomes_, sig, op>>
    /\ UNCHANGED <<valueVars, interpVars, extVars>>

\* Subpopulation::UpdateFitness
UpdateFitness ==
    /\ lookup_individual_' =
          gsl_ran_discrete_preproc(Len(parent_genomes_) \div 2,
              [i \in 1..(Len(parent_genomes_) \div 2) |->
                  FitnessOfIndividualWithGenomeIndices(parent_genomes_, 2 * (i - 1), 2 * (i - 1) + 1)])
    /\ subOp' = "UpdateFitness"
    /\ UNCHANGED <<subpop_size_, parent_genomes_, child_genomes_, sig, op>>
    /\ UNCHANGED <<valueVars, interpVars, extVars>>

\* Subpopulation::SwapChildAndParentGenomes: swap the vectors, then resize the
\* child vector to 2 * subpop_size_ (new slots are empty genomes)
Resize(v, n) == [i \in 1..n |-> IF i <= Len(v) THEN v[i] ELSE EmptyGenome]

\* a swap that only resizes: the children are not published
SwapChildAndParentGenomes_NoSwap ==
    /\ child_genomes_' = Resize(child_genomes_, 2 * subpop_size_)
    /\ subOp' = "SwapChildAndParentGenomes"
    /\ UNCHANGED <<subpop_size_, parent_genomes_, lookup_individual_, sig, op>>
    /\ UNCHANGED <<valueVars, interpVars, extVars>>

SwapChildAndParentGenomes ==
    /\ parent_genomes_' = child_genomes_
    /\ child_genomes_' = Resize(parent_genomes_, 2 * subpop_size_)
    /\ subOp' = "SwapChildAndParentGenomes"
    /\ UNCHANGED <<subpop_size_, lookup_individual_, sig, op>>
    /\ UNCHANGED <<valueVars, interpVars, extVars>>

\* the genomes the crossover-mutation kernel writes in the subpopulation model
FillMutation == [position_ |-> 1, mutation_type_ |-> 1, selection_coeff_ |-> 1]
FillGenomes == {EmptyGenome, <<FillMutation>>}

\* the crossover-mutation kernel fills one slot of the child array
FillChild(i, g) ==
    /\ child_genomes_[i] # g
    /\ child_genomes_' = [child_genomes_ EXCEPT ![i] = g]
    /\ subOp' = "FillChild"
    /\ UNCHANGED <<subpop_size_, parent_genomes_, lookup_individual_, sig, op>>
    /\ UNCHANGED <<valueVars, interpVars, extVars>>

----------------------------------------------------------------------------
(* Script values and masks *)

\* ScriptValueType, in promotion order from lowest to highest
ValueTypeRank == [t \in {"NULL", "logical", "int", "float", "string", "object"} |->
                    CASE t = "NULL" -> 0
                      [] t = "logical" -> 1
                      [] t = "int" -> 2
                      [] t = "float" -> 3
                      [] t = "string" -> 4
                      [] t = "object" -> 5]

\* a mask: the type bits, and the two flag bits
Mask(types, optional, singleton) == [types |-> types, optional |-> optional, singleton |-> singleton]

kValueMaskNULL == {"NULL"}
kValueMaskLogical == {"logical"}
kValueMaskInt == {"int"}
kValueMaskFloat == {"float"}
kValueMaskString == {"string"}
kValueMaskObject == {"object"}
kValueMaskNumeric == kValueMaskInt \cup kValueMaskFloat
kValueMaskLogicalEquiv == kValueMaskLogical \cup kValueMaskInt \cup kValueMaskFloat
kValueMaskAnyBase == kValueMaskNULL \cup kValueMaskLogicalEquiv \cup kValueMaskString
kValueMaskAny == kValueMaskAnyBase \cup kValueMaskObject

\* a value is a vector of elements of one type; an element is a number v, and
\* for a string the form f of its text: "lit" for a literal, or the name of the
\* type whose value v the text prints
Element(f, v) == [f |-> f, v |-> v]
Value(type, elems) == [type |-> type, elems |-> elems]
Count(value) == Len(value.elems)

ScriptValue_NULL == Value("NULL", << >>)
NoValue == Value("none", << >>)

----------------------------------------------------------------------------
(* FunctionSignature *)

\* new FunctionSignature(name, id, p_return_mask)
FunctionSignature(p_return_mask) ==
    [arg_masks_ |-> << >>, has_optional_args_ |-> FALSE, has_ellipsis_ |-> FALSE,
     return_mask_ |-> p_return_mask]

\* the record of the last operation: its kind, the error it raised ("" when it
\* returned), the function called, the arguments (for AddArg the mask), the
\* value the function or method body produced and the value handed to the caller
Operation(kind, error, name, args, executed, result) ==
    [kind |-> kind, error |-> error, name |-> name, args |-> args,
     executed |-> executed, result |-> result]

Idle == Operation("idle", "", "", << >>, NoValue, NoValue)

\* AddArg without the test of has_ellipsis_
AddArgRaises_IgnoresEllipsis(signature, p_arg_mask) ==
    signature.has_optional_args_ /\ ~p_arg_mask.optional

\* FunctionSignature::AddArg
AddArgRaises(signature, p_arg_mask) ==
    \/ signature.has_optional_args_ /\ ~p_arg_mask.optional
    \/ signature.has_ellipsis_

AddArg(p_arg_mask) ==
    /\ op = Idle
    /\ IF AddArgRaises(sig, p_arg_mask)
       THEN /\ sig' = sig
            /\ op' = Operation("AddArg", "cannot add", "", <<p_arg_mask>>, NoValue, NoValue)
       ELSE /\ Len(sig.arg_masks_) < MaxSigArgs
            /\ sig' = [sig EXCEPT !.arg_masks_ = Append(@, p_arg_mask),
                                  !.has_optional_args_ = @ \/ p_arg_mask.optional]
            /\ op' = Operation("AddArg", "", "", <<p_arg_mask>>, NoValue, NoValue)
    /\ UNCHANGED subVars
    /\ UNCHANGED <<valueVars, interpVars, extVars>>

\* FunctionSignature::AddEllipsis
AddEllipsisRaises(signature) == signature.has_optional_args_ \/ signature.has_ellipsis_

AddEllipsis ==
    /\ op = Idle
    /\ IF AddEllipsisRaises(sig)
       THEN /\ sig' = sig
            /\ op' = Operation("AddEllipsis", "cannot add", "", << >>, NoValue, NoValue)
       ELSE /\ sig' = [sig EXCEPT !.has_ellipsis_ = TRUE]
            /\ op' = Operation("AddEllipsis", "", "", << >>, NoValue, NoValue)
    /\ UNCHANGED subVars
    /\ UNCHANGED <<valueVars, interpVars, extVars>>

\* FunctionSignature::CheckArguments, the loop of lines 973-1014 from arg_index
\* (from 0) on; the result is the error raised, "" when none is
RECURSIVE CheckArgumentTypes(_, _, _)
CheckArgumentTypes(signature, p_arguments, arg_index) ==
    IF arg_index >= Len(signature.arg_masks_) THEN ""
    ELSE LET type_mask == signature.arg_masks_[arg_index + 1]
             is_optional == type_mask.optional
             requires_singleton == type_mask.singleton
             n_args == Len(p_arguments)
         IN IF n_args <= arg_index
            THEN IF is_optional THEN "" ELSE "missing required argument"
            ELSE LET argument == p_arguments[arg_index + 1]
                     type_ok == argument.type \in type_mask.types
                 IN IF type_mask.types # kValueMaskAny /\ ~type_ok
                    THEN "cannot be type"
                    ELSE IF type_mask.types # kValueMaskAny /\ requires_singleton
                                /\ Count(argument) # 1
                    THEN "must be a singleton"
                    ELSE CheckArgumentTypes(signature, p_arguments, arg_index + 1)

\* CheckArguments with a test that the arguments taken by the ellipsis are of
\* base type
CheckArguments_ChecksEllipsis(signature, p_arguments) ==
    IF ~signature.has_ellipsis_ /\ Len(p_arguments) > Len(signature.arg_masks_)
    THEN "requires at most"
    ELSE IF \E i \in (Len(signature.arg_masks_) + 1)..Len(p_arguments) :
                p_arguments[i].type \notin kValueMaskAnyBase
    THEN "cannot be type"
    ELSE CheckArgumentTypes(signature, p_arguments, 0)

CheckArguments(signature, p_arguments) ==
    IF ~signature.has_ellipsis_ /\ Len(p_arguments) > Len(signature.arg_masks_)
    THEN "requires at most"
    ELSE CheckArgumentTypes(signature, p_arguments, 0)

\* CheckReturn without the singleton test
CheckReturn_NoSingletonTest(signature, p_result) ==
    IF p_result.type \notin signature.return_mask_.types
    THEN "internal error: return value cannot be type"
    ELSE ""

\* FunctionSignature::CheckReturn
CheckReturn(signature, p_result) ==
    LET retmask == signature.return_mask_
        return_type_ok == p_result.type \in retmask.types
        return_is_singleton == retmask.singleton
    IN IF ~return_type_ok THEN "internal error: return value cannot be type"
       ELSE IF return_is_singleton /\ Count(p_result) # 1
       THEN "internal error: return value must be a singleton"
       ELSE ""

----------------------------------------------------------------------------
(* Built-in functions *)

\* ScriptValue::LogicalAtIndex, IntAtIndex, FloatAtIndex, StringAtIndex: the
\* element at p_idx (from 0) converted to the type asked; a float is held in
\* tenths, and the text of a converted value records the type and number it prints
LogicalAtIndex(value, p_idx) ==
    CASE value.type = "logical" -> value.elems[p_idx + 1]

IntAtIndex(value, p_idx) ==
    CASE value.type \in {"logical", "int"} -> Element("", value.elems[p_idx + 1].v)

FloatAtIndex(value, p_idx) ==
    CASE value.type \in {"logical", "int"} -> Element("", value.elems[p_idx + 1].v * 10)
      [] value.type = "float" -> value.elems[p_idx + 1]

StringAtIndex(value, p_idx) ==
    CASE value.type \in {"logical", "int", "float"} -> Element(value.type, value.elems[p_idx + 1].v)
      [] value.type = "string" -> value.elems[p_idx + 1]

ValueAtIndexAs(type, value, p_idx) ==
    CASE type = "logical" -> LogicalAtIndex(value, p_idx)
      [] type = "int" -> IntAtIndex(value, p_idx)
      [] type = "float" -> FloatAtIndex(value, p_idx)
      [] type = "string" -> StringAtIndex(value, p_idx)

Abs(n) == IF n < 0 THEN -n ELSE n

\* int64_t, scaled down: an int has IntBits bits, two's complement
IntBits == 3
IntMin == -(2 ^ (IntBits - 1))
IntMax == 2 ^ (IntBits - 1) - 1

\* a signature as the chain new FunctionSignature(...)->AddArg(...)->... leaves it
SignatureWithArgs(p_return_mask, arg_masks) ==
    [FunctionSignature(p_return_mask) EXCEPT
        !.arg_masks_ = arg_masks,
        !.has_optional_args_ = \E i \in DOMAIN arg_masks : arg_masks[i].optional]

\* the math functions, which all take a numeric vector to a float vector
MathFunctions == {"acos", "asin", "atan", "cos", "sin", "tan", "exp", "log", "log10", "log2",
                  "sqrt", "ceil", "floor", "round", "trunc"}

\* the functions that write to the output stream and return the invisible NULL
OutputFunctions == {"print", "cat", "license", "help", "ls", "function"}

\* the built-in function map: name |-> signature (a proxy is a value of type
\* object)
BuiltInFunctionMap ==
    [name \in {"rep", "repEach", "seq", "seqAlong", "c", "size", "rev", "class", "abs", "stop",
               "version", "Path"} \cup MathFunctions \cup OutputFunctions |->
        CASE name = "rep" ->
                 SignatureWithArgs(Mask(kValueMaskAnyBase, FALSE, FALSE),
                                   <<Mask(kValueMaskAnyBase, FALSE, FALSE),
                                     Mask(kValueMaskInt, FALSE, TRUE)>>)
          [] name = "repEach" ->
                 SignatureWithArgs(Mask(kValueMaskAnyBase, FALSE, FALSE),
                                   <<Mask(kValueMaskAnyBase, FALSE, FALSE),
                                     Mask(kValueMaskInt, FALSE, FALSE)>>)
          [] name = "seq" ->
                 SignatureWithArgs(Mask(kValueMaskNumeric, FALSE, FALSE),
                                   <<Mask(kValueMaskNumeric, FALSE, TRUE),
                                     Mask(kValueMaskNumeric, FALSE, TRUE),
                                     Mask(kValueMaskNumeric, TRUE, TRUE)>>)
          [] name = "seqAlong" ->
                 SignatureWithArgs(Mask(kValueMaskInt, FALSE, FALSE),
                                   <<Mask(kValueMaskAny, FALSE, FALSE)>>)
          [] name = "c" ->
                 [FunctionSignature(Mask(kValueMaskAnyBase, FALSE, FALSE))
                     EXCEPT !.has_ellipsis_ = TRUE]
          [] name \in {"print", "cat"} ->
                 SignatureWithArgs(Mask(kValueMaskNULL, FALSE, FALSE),
                                   <<Mask(kValueMaskAny, FALSE, FALSE)>>)
          [] name = "size" ->
                 SignatureWithArgs(Mask(kValueMaskInt, FALSE, TRUE),
                                   <<Mask(kValueMaskAny, FALSE, FALSE)>>)
          [] name = "rev" ->
                 SignatureWithArgs(Mask(kValueMaskAnyBase, FALSE, FALSE),
                                   <<Mask(kValueMaskAnyBase, FALSE, FALSE)>>)
          [] name = "class" ->
                 SignatureWithArgs(Mask(kValueMaskString, FALSE, TRUE),
                                   <<Mask(kValueMaskAny, FALSE, FALSE)>>)
          [] name \in MathFunctions ->
                 SignatureWithArgs(Mask(kValueMaskFloat, FALSE, FALSE),
                                   <<Mask(kValueMaskNumeric, FALSE, FALSE)>>)
          [] name = "abs" ->
                 SignatureWithArgs(Mask(kValueMaskNumeric, FALSE, FALSE),
                                   <<Mask(kValueMaskNumeric, FALSE, FALSE)>>)
          [] name \in {"stop", "help", "function"} ->
                 SignatureWithArgs(Mask(kValueMaskNULL, FALSE, FALSE),
                                   <<Mask(kValueMaskString, TRUE, TRUE)>>)
          [] name = "version" ->
                 SignatureWithArgs(Mask(kValueMaskString, FALSE, TRUE), << >>)
          [] name \in {"license", "ls"} ->
                 SignatureWithArgs(Mask(kValueMaskNULL, FALSE, FALSE), << >>)
          [] name = "Path" ->
                 SignatureWithArgs(Mask(kValueMaskObject, FALSE, TRUE),
                                   <<Mask(kValueMaskString, TRUE, TRUE)>>)]

\* Execute_c, lines 342-348: the highest-promotion type among the arguments
RECURSIVE HighestType(_, _, _)
HighestType(p_arguments, k, highest_type) ==
    IF k > Len(p_arguments) THEN highest_type
    ELSE HighestType(p_arguments, k + 1,
                     IF ValueTypeRank[p_arguments[k].type] > ValueTypeRank[highest_type]
                     THEN p_arguments[k].type
                     ELSE highest_type)

\* the loops of Execute_c pushing each element as it is, without conversion
RECURSIVE PushArguments_Unconverted(_, _, _)
PushArguments_Unconverted(p_arguments, k, type) ==
    IF k > Len(p_arguments) THEN << >>
    ELSE p_arguments[k].elems \o PushArguments_Unconverted(p_arguments, k + 1, type)

\* Execute_c, the loops of lines 359-395: the elements of the non-NULL arguments
\* from argument k on, each fetched as the result type
RECURSIVE PushArguments(_, _, _)
PushArguments(p_arguments, k, type) ==
    IF k > Len(p_arguments) THEN << >>
    ELSE LET arg_value == p_arguments[k]
         IN (IF arg_value.type # "NULL"
             THEN [value_index \in 1..Count(arg_value) |-> ValueAtIndexAs(type, arg_value, value_index - 1)]
             ELSE << >>)
            \o PushArguments(p_arguments, k + 1, type)

\* the outcome of a function body or of a call: the error raised ("" when none),
\* the value the body produced and the value returned
Outcome(error, result) == [error |-> error, executed |-> result, result |-> result]

\* Execute_c
Execute_c(p_arguments) ==
    LET highest_type == HighestType(p_arguments, 1, "NULL")
    IN IF highest_type = "NULL" THEN Outcome("", ScriptValue_NULL)
       ELSE IF highest_type \in {"logical", "int", "float", "string"}
       THEN Outcome("", Value(highest_type, PushArguments(p_arguments, 1, highest_type)))
       ELSE Outcome("cannot be used with c()", NoValue)

\* ScriptValue::NewMatchingType: an empty value of the same type
NewMatchingType(value) == Value(value.type, << >>)

\* the loop "for (rep_idx = 0; rep_idx < rep_count; rep_idx++)" pushing elems
\* each time round: it does not run for a count of zero or less
RECURSIVE Replicate(_, _)
Replicate(elems, rep_count) ==
    IF rep_count <= 0 THEN << >> ELSE elems \o Replicate(elems, rep_count - 1)

\* Execute_rep
Execute_rep(p_arguments) ==
    LET arg1_value == p_arguments[1]
        arg2_value == p_arguments[2]
        arg2_count == Count(arg2_value)
        result == NewMatchingType(arg1_value)
    IN  IF arg2_count = 1
        THEN LET rep_count == IntAtIndex(arg2_value, 0).v
             IN  Outcome("", [result EXCEPT !.elems = Replicate(arg1_value.elems, rep_count)])
        ELSE Outcome("", result)

\* the loops of Execute_repEach from value_idx on: element value_idx is pushed
\* rep_counts[value_idx] times
RECURSIVE ReplicateEach(_, _, _)
ReplicateEach(elems, rep_counts, value_idx) ==
    IF value_idx >= Len(elems) THEN << >>
    ELSE Replicate(<<elems[value_idx + 1]>>, rep_counts[value_idx + 1])
         \o ReplicateEach(elems, rep_counts, value_idx + 1)

\* Execute_repEach
Execute_repEach(p_arguments) ==
    LET arg1_value == p_arguments[1]
        arg1_count == Count(arg1_value)
        arg2_value == p_arguments[2]
        arg2_count == Count(arg2_value)
        result == NewMatchingType(arg1_value)
    IN  IF arg2_count = 1
        THEN LET rep_count == IntAtIndex(arg2_value, 0).v
                 rep_counts == [value_idx \in 1..arg1_count |-> rep_count]
             IN  Outcome("", [result EXCEPT
                                 !.elems = ReplicateEach(arg1_value.elems, rep_counts, 0)])
        ELSE IF arg2_count = arg1_count
        THEN LET rep_counts == [value_idx \in 1..arg1_count |->
                                   IntAtIndex(arg2_value, value_idx - 1).v]
             IN  Outcome("", [result EXCEPT
                                 !.elems = ReplicateEach(arg1_value.elems, rep_counts, 0)])
        ELSE Outcome("requires that its second argument's size()", NoValue)

\* does the loop of Execute_seq go round once more?
SeqContinues(seq_value, second_value, by_value) ==
    IF by_value > 0 THEN seq_value <= second_value ELSE seq_value >= second_value

\* the loops of the float case; a float is held in tenths and the sums are exact
RECURSIVE FloatSequence(_, _, _)
FloatSequence(seq_value, second_value, by_value) ==
    IF SeqContinues(seq_value, second_value, by_value)
    THEN <<Element("", seq_value)>>
         \o FloatSequence(seq_value + by_value, second_value, by_value)
    ELSE << >>

\* what a build does when "seq_value += by_value" overflows int64_t, which
\* the language leaves undefined: the sum wraps around, or the program traps
OverflowBehaviours == {"wrap", "trap"}

\* the outcomes of a call that are not a return and not a raise
Undefined == {"does not terminate", "trapped"}

WrapInt(n) == ((n - IntMin) % (2 ^ IntBits)) + IntMin

\* the loops of the int case, with the elements pushed so far; a counter that
\* has been pushed more often than there are ints repeats for ever
RECURSIVE IntSequence(_, _, _, _, _)
IntSequence(seq_value, second_value, by_value, p_overflow, pushed) ==
    IF ~SeqContinues(seq_value, second_value, by_value)
    THEN Outcome("", Value("int", pushed))
    ELSE IF Len(pushed) >= 2 ^ IntBits
    THEN Outcome("does not terminate", NoValue)
    ELSE LET sum == seq_value + by_value
             int_result == Append(pushed, Element("", seq_value))
         IN  IF sum \in IntMin..IntMax
             THEN IntSequence(sum, second_value, by_value, p_overflow, int_result)
             ELSE IF p_overflow = "trap"
             THEN Outcome("trapped", NoValue)
             ELSE IntSequence(WrapInt(sum), second_value, by_value, p_overflow, int_result)

\* Execute_seq
Execute_seq(p_arguments, p_overflow) ==
    LET arg1_value == p_arguments[1]
        arg1_type == arg1_value.type
        arg2_value == p_arguments[2]
        arg2_type == arg2_value.type
        has_arg3 == Len(p_arguments) = 3
        arg3_type == IF has_arg3 THEN p_arguments[3].type ELSE "int"
    IN  IF arg1_type = "float" \/ arg2_type = "float" \/ arg3_type = "float"
        THEN LET first_value == FloatAtIndex(arg1_value, 0).v
                 second_value == FloatAtIndex(arg2_value, 0).v
                 default_by == IF first_value < second_value THEN 10 ELSE -10
                 by_value == IF has_arg3 THEN FloatAtIndex(p_arguments[3], 0).v ELSE default_by
             IN  IF by_value = 0 THEN Outcome("requires a by argument != 0", NoValue)
                 ELSE IF \/ first_value < second_value /\ by_value < 0
                         \/ first_value > second_value /\ by_value > 0
                 THEN Outcome("by argument has incorrect sign", NoValue)
                 ELSE Outcome("", Value("float", FloatSequence(first_value, second_value, by_value)))
        ELSE LET first_value == IntAtIndex(arg1_value, 0).v
                 second_value == IntAtIndex(arg2_value, 0).v
                 default_by == IF first_value < second_value THEN 1 ELSE -1
                 by_value == IF has_arg3 THEN IntAtIndex(p_arguments[3], 0).v ELSE default_by
             IN  IF by_value = 0 THEN Outcome("requires a by argument != 0", NoValue)
                 ELSE IF \/ first_value < second_value /\ by_value < 0
                         \/ first_value > second_value /\ by_value > 0
                 THEN Outcome("by argument has incorrect sign", NoValue)
                 ELSE IntSequence(first_value, second_value, by_value, p_overflow, << >>)

\* lines 546-571: the result allocated before the function runs, when the
\* return mask names one type; nullptr (no value) when it does not
Preallocated(signature) ==
    LET return_type_mask == signature.return_mask_.types
    IN  CASE return_type_mask = kValueMaskNULL -> ScriptValue_NULL
          [] return_type_mask = kValueMaskLogical -> Value("logical", << >>)
          [] return_type_mask = kValueMaskFloat -> Value("float", << >>)
          [] return_type_mask = kValueMaskInt -> Value("int", << >>)
          [] return_type_mask = kValueMaskString -> Value("string", << >>)
          [] OTHER -> NoValue

\* abs() that allocates a result for a float argument only
Execute_abs_FloatOnly(p_arguments, result, p_overflow) ==
    LET arg1_value == p_arguments[1]
    IN  IF arg1_value.type = "float"
        THEN Outcome("", Value("float", [i \in 1..Count(arg1_value) |->
                                           Element("", Abs(FloatAtIndex(arg1_value, i - 1).v))]))
        ELSE Outcome("", result)

\* case absFunction: llabs of each int, fabs of each float; llabs of the
\* smallest int overflows
Execute_abs(p_arguments, result, p_overflow) ==
    LET arg1_value == p_arguments[1]
    IN  IF arg1_value.type = "int"
        THEN IF p_overflow = "trap" /\ \E i \in 1..Count(arg1_value) : arg1_value.elems[i].v = IntMin
             THEN Outcome("trapped", NoValue)
             ELSE Outcome("", Value("int", [i \in 1..Count(arg1_value) |->
                                              LET v == IntAtIndex(arg1_value, i - 1).v
                                              IN  Element("", IF v = IntMin THEN IntMin ELSE Abs(v))]))
        ELSE IF arg1_value.type = "float"
        THEN Outcome("", Value("float", [i \in 1..Count(arg1_value) |->
                                           Element("", Abs(FloatAtIndex(arg1_value, i - 1).v))]))
        ELSE Outcome("", result)

\* the switch of ExecuteFunctionCall, lines 590-853, on the preallocated result
ExecuteFunction(p_function_name, p_arguments, result, p_overflow) ==
    LET n_args == Len(p_arguments)
        arg1_value == IF n_args >= 1 THEN p_arguments[1] ELSE NoValue
        arg1_count == IF n_args >= 1 THEN Count(arg1_value) ELSE 0
    IN  CASE p_function_name = "c" -> Execute_c(p_arguments)
          [] p_function_name = "rep" -> Execute_rep(p_arguments)
          [] p_function_name = "repEach" -> Execute_repEach(p_arguments)
          [] p_function_name = "seq" -> Execute_seq(p_arguments, p_overflow)
          [] p_function_name = "seqAlong" -> Outcome("function unimplemented", NoValue)
          [] p_function_name \in OutputFunctions -> Outcome("", result)
          [] p_function_name = "size" ->
                 Outcome("", [result EXCEPT !.elems = Append(@, Element("", arg1_count))])
          [] p_function_name = "rev" ->
                 Outcome("", [NewMatchingType(arg1_value) EXCEPT
                                 !.elems = [i \in 1..arg1_count |->
                                               arg1_value.elems[arg1_count + 1 - i]]])
          [] p_function_name = "class" ->
                 Outcome("", [result EXCEPT
                                 !.elems = Append(@, Element("lit", ValueTypeRank[arg1_value.type]))])
          [] p_function_name \in MathFunctions ->
                 Outcome("", [result EXCEPT
                                 !.elems = [i \in 1..arg1_count |->
                                               Element(p_function_name,
                                                       FloatAtIndex(arg1_value, i - 1).v)]])
          [] p_function_name = "abs" -> Execute_abs(p_arguments, result, p_overflow)
          [] p_function_name = "stop" -> Outcome("stop() called by user code", NoValue)
          [] p_function_name = "version" ->
                 Outcome("", [result EXCEPT !.elems = Append(@, Element("lit", 0))])
          [] p_function_name = "Path" ->
                 Outcome("", Value("object", <<Element("", n_args)>>))

\* ExecuteFunctionCall: the signature is looked up, the arguments are checked,
\* the function is executed and its result is checked before it is returned
FunctionCall(p_function_name, p_arguments, p_overflow) ==
    IF p_function_name \notin DOMAIN BuiltInFunctionMap
    THEN Outcome("unrecognized function name", NoValue)
    ELSE LET signature == BuiltInFunctionMap[p_function_name]
             arg_error == CheckArguments(signature, p_arguments)
         IN IF arg_error # "" THEN Outcome(arg_error, NoValue)
            ELSE LET executed == ExecuteFunction(p_function_name, p_arguments,
                                                 Preallocated(signature), p_overflow)
                 IN IF executed.error # "" THEN executed
                    ELSE LET return_error == CheckReturn(signature, executed.result)
                         IN IF return_error # ""
                            THEN [Outcome(return_error, NoValue) EXCEPT !.executed = executed.result]
                            ELSE executed

ExecuteFunctionCall(p_function_name, p_arguments) ==
    /\ op = Idle
    /\ \E p_overflow \in OverflowBehaviours :
          LET called == FunctionCall(p_function_name, p_arguments, p_overflow)
          IN op' = Operation("function", called.error, p_function_name, p_arguments,
                             called.executed, called.result)
    /\ UNCHANGED <<sig>>
    /\ UNCHANGED subVars
    /\ UNCHANGED <<valueVars, interpVars, extVars>>

\* ExecuteMethodCall on an object whose method has the signature sig and whose
\* ExecuteMethod returns executed_result
MethodCall(method_signature, p_arguments, executed_result) ==
    LET arg_error == CheckArguments(method_signature, p_arguments)
    IN IF arg_error # "" THEN Outcome(arg_error, NoValue)
       ELSE LET return_error == CheckReturn(method_signature, executed_result)
            IN IF return_error # ""
               THEN [Outcome(return_error, NoValue) EXCEPT !.executed = executed_result]
               ELSE Outcome("", executed_result)

ExecuteMethodCall(p_arguments, executed_result) ==
    /\ op = Idle
    /\ LET called == MethodCall(sig, p_arguments, executed_result)
       IN op' = Operation("method", called.error, "", p_arguments, called.executed, called.result)
    /\ UNCHANGED <<sig>>
    /\ UNCHANGED subVars
    /\ UNCHANGED <<valueVars, interpVars, extVars>>

\* the caller takes the result (or the error) and the interpreter goes on
Return ==
    /\ op # Idle
    /\ op.error \notin Undefined
    /\ op' = Idle
    /\ UNCHANGED <<sig>>
    /\ UNCHANGED subVars
    /\ UNCHANGED <<valueVars, interpVars, extVars>>

----------------------------------------------------------------------------
(* The value layer: EidosValue objects and EidosObjectElement refcounts     *)
(* (src/unnamed/part_001, eidos_value.h).  The header declares the classes, *)
(* their fields and the inline ownership flags; the out-of-line members are *)
(* modelled from the header's comments and the specification.               *)

\* the object elements that exist
ElementIds == {1}

ValueClasses == {"Int_vector", "Int_singleton_const", "Float_vector", "Float_singleton_const",
                 "Object_vector", "Object_singleton_const", "String"}
SingletonConstClasses == {"Int_singleton_const", "Float_singleton_const", "Object_singleton_const"}

\* EidosValue::Type() of each class
TypeOfClass(class) ==
    CASE class \in {"Int_vector", "Int_singleton_const"} -> "int"
      [] class \in {"Float_vector", "Float_singleton_const"} -> "float"
      [] class \in {"Object_vector", "Object_singleton_const"} -> "object"
      [] class = "String" -> "string"
      [] OTHER -> "none"

\* the vector class MutableCopy() of a singleton constant produces
VectorClassOf(class) ==
    CASE TypeOfClass(class) = "int" -> "Int_vector"
      [] TypeOfClass(class) = "float" -> "Float_vector"
      [] TypeOfClass(class) = "object" -> "Object_vector"
      [] TypeOfClass(class) = "string" -> "String"

\* a value object as constructed: both ownership flags start false
EidosValue(class, elems) ==
    [class |-> class, elems |-> elems,
     external_temporary_ |-> FALSE, external_permanent_ |-> FALSE]

\* a slot of the heap that holds no value object
Unallocated == EidosValue("none", << >>)

Allocated(id) == values[id].class # "none"

\* Count(): 1 for the singleton classes, the vector's size otherwise
EidosValue_Count(v) == IF v.class \in SingletonConstClasses THEN 1 ELSE Len(v.elems)

\* IsMutable(): true by default, false in the immutable subclasses
IsMutable(v) == v.class \notin SingletonConstClasses

IsTemporary(v) == ~(v.external_temporary_ \/ v.external_permanent_)
IsExternalTemporary(v) == v.external_temporary_
IsExternalPermanent(v) == v.external_permanent_

\* an object element: externally managed, or internally managed by refcount_
\* (which starts at 1); destroyed counts the runs of its destructor and
\* allocator_holds says whether the reference the allocator got is still held
EidosObjectElement_StartsAtZero(internal) ==
    [internal |-> internal, refcount_ |-> 0, destroyed |-> 0, allocator_holds |-> TRUE]

EidosObjectElement(internal) ==
    [internal |-> internal, refcount_ |-> IF internal THEN 1 ELSE 0,
     destroyed |-> 0, allocator_holds |-> TRUE]

\* the record of the last operation of the value layer
ValueOperation(name, self, error, before, result) ==
    [name |-> name, self |-> self, error |-> error, before |-> before, result |-> result]

\* Retain() and Release() applied to the element table
RetainIn(elts, e) ==
    IF elts[e].internal
    THEN [elts EXCEPT ![e].refcount_ = @ + 1]
    ELSE elts

ReleaseIn(elts, e) ==
    IF elts[e].internal
    THEN [elts EXCEPT ![e].refcount_ = @ - 1,
                      ![e].destroyed = IF elts[e].refcount_ - 1 = 0 THEN @ + 1 ELSE @]
    ELSE elts

RECURSIVE RetainAll(_, _)
RetainAll(elts, es) ==
    IF es = << >> THEN elts ELSE RetainAll(RetainIn(elts, Head(es)), Tail(es))

RECURSIVE ReleaseAll(_, _)
ReleaseAll(elts, es) ==
    IF es = << >> THEN elts ELSE ReleaseAll(ReleaseIn(elts, Head(es)), Tail(es))

\* the elements a value object holds references to
HeldElements(v) == IF TypeOfClass(v.class) = "object" THEN v.elems ELSE << >>

\* the element at index p_idx of a value object, if it is an object element
HeldElementAt(v, p_idx) == IF TypeOfClass(v.class) = "object" THEN <<v.elems[p_idx + 1]>> ELSE << >>

FreeSlots == {id \in DOMAIN values : ~Allocated(id)}
NewSlot == CHOOSE id \in FreeSlots : \A other \in FreeSlots : id <= other

\* the constructors: new EidosValue_*_singleton_const(x), new EidosValue_*_vector{...};
\* an object value retains the elements it is given, which the caller holds
ConstructorArguments ==
    {<<"Int_singleton_const", <<1>>>>, <<"Int_vector", <<2, 1>>>>,
     <<"Float_singleton_const", <<15>>>>} \cup
    {<<"Object_singleton_const", <<e>>>> : e \in ElementIds}

Construct(class, elems) ==
    /\ FreeSlots # {}
    /\ \A i \in 1..Len(HeldElements(EidosValue(class, elems))) :
           elements[elems[i]].allocator_holds
    /\ values' = [values EXCEPT ![NewSlot] = EidosValue(class, elems)]
    /\ elements' = RetainAll(elements, HeldElements(EidosValue(class, elems)))
    /\ valueOp' = ValueOperation("Construct", NewSlot, "", Unallocated, NewSlot)
    /\ UNCHANGED <<extVars, subVars, sigVars, interpVars>>

\* delete of a value object: an object value releases its elements
Destruct(self) ==
    /\ Allocated(self)
    /\ values' = [values EXCEPT ![self] = Unallocated]
    /\ elements' = ReleaseAll(elements, HeldElements(values[self]))
    /\ valueOp' = ValueOperation("Destruct", self, "", values[self], 0)
    /\ UNCHANGED <<extVars, subVars, sigVars, interpVars>>

\* the allocator of an element gives up the reference it started with
ReleaseByAllocator(e) ==
    /\ elements[e].allocator_holds
    /\ elements' = [ReleaseIn(elements, e) EXCEPT ![e].allocator_holds = FALSE]
    /\ valueOp' = ValueOperation("Release", 0, "", Unallocated, e)
    /\ UNCHANGED values
    /\ UNCHANGED <<extVars, subVars, sigVars, interpVars>>

SetExternalTemporary(self) ==
    /\ Allocated(self)
    /\ values' = [values EXCEPT ![self].external_temporary_ = TRUE]
    /\ valueOp' = ValueOperation("SetExternalTemporary", self, "", values[self], self)
    /\ UNCHANGED elements
    /\ UNCHANGED <<extVars, subVars, sigVars, interpVars>>

SetExternalPermanent(self) ==
    /\ Allocated(self)
    /\ values' = [values EXCEPT ![self].external_permanent_ = TRUE]
    /\ valueOp' = ValueOperation("SetExternalPermanent", self, "", values[self], self)
    /\ UNCHANGED elements
    /\ UNCHANGED <<extVars, subVars, sigVars, interpVars>>

\* the number of times x occurs in the sequence s
Occurrences(s, x) == Cardinality({i \in 1..Len(s) : s[i] = x})

\* std::sort of a vector's elements
Sorted(s, p_ascending) ==
    CHOOSE t \in [1..Len(s) -> {s[i] : i \in 1..Len(s)}] :
        /\ \A i \in 1..Len(s) : Occurrences(t, s[i]) = Occurrences(s, s[i])
        /\ \A i \in 1..(Len(s) - 1) :
               IF p_ascending THEN t[i] <= t[i + 1] ELSE t[i] >= t[i + 1]

\* the error SetValueAtIndex raises, "" when it raises none
SetValueAtIndexError(v, p_idx, p_value) ==
    IF ~IsMutable(v) THEN "is not mutable"
    ELSE IF p_idx < 0 \/ p_idx >= EidosValue_Count(v) THEN "subscript out of range"
    ELSE IF TypeOfClass(p_value.class) # TypeOfClass(v.class) \/ EidosValue_Count(p_value) < 1
         THEN "type mismatch"
    ELSE ""

SetValueAtIndex_OnConstants(self, p_idx, p_value) ==
    /\ Allocated(self) /\ Allocated(p_value)
    /\ LET v == values[self]
           x == values[p_value]
           error == IF p_idx < 0 \/ p_idx >= EidosValue_Count(v) THEN "subscript out of range"
                    ELSE IF TypeOfClass(x.class) # TypeOfClass(v.class) \/ EidosValue_Count(x) < 1
                         THEN "type mismatch"
                    ELSE ""
       IN  /\ valueOp' = ValueOperation("SetValueAtIndex", self, error, v, self)
           /\ IF error # ""
              THEN UNCHANGED <<values, elements>>
              ELSE /\ values' = [values EXCEPT ![self].elems[p_idx + 1] = x.elems[1]]
                   /\ elements' = ReleaseAll(RetainAll(elements, HeldElementAt(x, 0)),
                                             HeldElementAt(v, p_idx))
    /\ UNCHANGED <<extVars, subVars, sigVars, interpVars>>

\* v.SetValueAtIndex(p_idx, p_value): element p_idx becomes p_value's first
\* element; an object vector retains the new element and releases the old
SetValueAtIndex(self, p_idx, p_value) ==
    /\ Allocated(self) /\ Allocated(p_value)
    /\ LET v == values[self]
           x == values[p_value]
           error == SetValueAtIndexError(v, p_idx, x)
       IN  /\ valueOp' = ValueOperation("SetValueAtIndex", self, error, v, self)
           /\ IF error # ""
              THEN UNCHANGED <<values, elements>>
              ELSE /\ values' = [values EXCEPT ![self].elems[p_idx + 1] = x.elems[1]]
                   /\ elements' = ReleaseAll(RetainAll(elements, HeldElementAt(x, 0)),
                                             HeldElementAt(v, p_idx))
    /\ UNCHANGED <<extVars, subVars, sigVars, interpVars>>

\* v.PushValueFromIndexOfEidosValue(p_idx, source): appends one element of a
\* value of the same type
PushValueFromIndexOfEidosValue(self, p_idx, p_source_script_value) ==
    /\ Allocated(self) /\ Allocated(p_source_script_value)
    /\ LET v == values[self]
           x == values[p_source_script_value]
           error == IF ~IsMutable(v) THEN "is not mutable"
                    ELSE IF TypeOfClass(x.class) # TypeOfClass(v.class) THEN "type mismatch"
                    ELSE IF p_idx < 0 \/ p_idx >= EidosValue_Count(x) THEN "subscript out of range"
                    ELSE ""
       IN  /\ error = "" => Len(v.elems) < MaxLen
           /\ valueOp' = ValueOperation("PushValueFromIndexOfEidosValue", self, error, v, self)
           /\ IF error # ""
              THEN UNCHANGED <<values, elements>>
              ELSE /\ values' = [values EXCEPT ![self].elems = Append(@, x.elems[p_idx + 1])]
                   /\ elements' = RetainAll(elements, HeldElementAt(x, p_idx))
    /\ UNCHANGED <<extVars, subVars, sigVars, interpVars>>

\* v.Sort(p_ascending): the object classes inherit EidosValue_Object::Sort,
\* which is not defined for objects
Sort(self, p_ascending) ==
    /\ Allocated(self)
    /\ LET v == values[self]
           error == IF TypeOfClass(v.class) = "object" THEN "Sort() is not defined for type object"
                    ELSE IF ~IsMutable(v) THEN "is not mutable"
                    ELSE ""
       IN  /\ valueOp' = ValueOperation("Sort", self, error, v, self)
           /\ IF error # ""
              THEN UNCHANGED values
              ELSE values' = [values EXCEPT ![self].elems = Sorted(v.elems, p_ascending)]
           /\ UNCHANGED elements
    /\ UNCHANGED <<extVars, subVars, sigVars, interpVars>>

\* v.MutableCopy(): CopyValues() by default; a singleton constant gives a new
\* vector holding its one element.  The copy's flags start false.
MutableCopy(self) ==
    /\ Allocated(self)
    /\ FreeSlots # {}
    /\ LET v == values[self]
           copy == EidosValue(VectorClassOf(v.class), v.elems)
       IN  /\ values' = [values EXCEPT ![NewSlot] = copy]
           /\ elements' = RetainAll(elements, HeldElements(copy))
           /\ valueOp' = ValueOperation("MutableCopy", self, "", v, NewSlot)
    /\ UNCHANGED <<extVars, subVars, sigVars, interpVars>>

----------------------------------------------------------------------------
(* The symbol table and the statements that use it.  The syntax tree caches  *)
(* its literals (src/eidos/eidos_ast_node.cpp, _OptimizeConstants); the      *)
(* symbol table itself is outside the source and is modelled from the       *)
(* ownership rules of eidos_value.h, the specification and the tests        *)
(* (src/eidos/eidos_test.cpp).                                              *)

IntrinsicNames == {"T", "F", "NULL", "INF", "NAN", "E", "PI"}
UserNames == {"x", "y"}
SymbolNames == IntrinsicNames \cup UserNames

\* the literal tokens of the script: a number and two strings
NumberTokens == {"5"}
StringTokens == {"'foo'", "'bar'"}
LiteralTokens == NumberTokens \cup StringTokens

\* strtoll() of a number token; the text of a string token
TokenValue(token) ==
    CASE token = "5" -> 5
      [] token = "'foo'" -> "foo"
      [] token = "'bar'" -> "bar"

\* the value Evaluate_Number / Evaluate_String make of a literal token, and
\* _OptimizeConstants makes alike: it "needs to match exactly"
LiteralValue(token) ==
    IF token \in NumberTokens
    THEN EidosValue("Int_singleton_const", <<TokenValue(token)>>)
    ELSE EidosValue("String", <<TokenValue(token)>>)

\* the number of heap slots the statements of one script can need
SymbolHeap == 1..(Cardinality(LiteralTokens) + Cardinality(UserNames) + 1)

LowestFree(heap) ==
    CHOOSE id \in DOMAIN heap :
        /\ heap[id].class = "none"
        /\ \A other \in DOMAIN heap : heap[other].class = "none" => id <= other

\* the symbol table: the intrinsic constants, the constants made by
\* defineConstant and the variables; 0 stands for a name that is not in a table
SymbolTable ==
    [intrinsic |-> IntrinsicNames,
     constants |-> [name \in UserNames |-> 0],
     variables |-> [name \in UserNames |-> 0]]

IsConstant(table, name) ==
    \/ name \in table.intrinsic
    \/ (name \in UserNames /\ table.constants[name] # 0)

IsVariable(table, name) == name \in UserNames /\ table.variables[name] # 0

ContainsSymbol(table, name) == IsConstant(table, name) \/ IsVariable(table, name)

\* the heap slot a user name is bound to, 0 when it is undefined
SlotOf(table, name) ==
    IF table.constants[name] # 0 THEN table.constants[name] ELSE table.variables[name]

\* what a name is in the table: an intrinsic constant, a defined constant, a
\* variable, or nothing
BoundAs(table, name) ==
    IF name \in table.intrinsic THEN "intrinsic"
    ELSE IF name \notin UserNames THEN ""
    ELSE IF table.constants[name] # 0 THEN "constant"
    ELSE IF table.variables[name] # 0 THEN "variable"
    ELSE ""

\* the record of the last statement: its kind, the name it is about and what
\* that name was when the statement began, the literal token it uses and the
\* error it raised ("" for none)
Statement(kind, name, token, error) ==
    [kind |-> kind, name |-> name, was |-> BoundAs(symbols, name),
     token |-> token, error |-> error]

\* the syntax tree of the script: cached_value_ of each literal node (0 for
\* nullptr) and the last statement executed
Interpreter(cached_value_, statement) ==
    [cached_value_ |-> cached_value_, statement |-> statement]

RECURSIVE CacheLiterals(_, _, _, _)
\* _OptimizeConstants over the literal nodes: a new value for each, flagged by
\* the given setter and remembered in cached_value_
CacheLiterals(tokens, heap, cache, flag) ==
    IF tokens = {} THEN [values |-> heap, cached_value_ |-> cache]
    ELSE LET token == CHOOSE t \in tokens : TRUE
             id == LowestFree(heap)
             result == LiteralValue(token)
             flagged == CASE flag = "SetExternalTemporary" ->
                                 [result EXCEPT !.external_temporary_ = TRUE]
                          [] flag = "SetExternalPermanent" ->
                                 [result EXCEPT !.external_permanent_ = TRUE]
                          [] OTHER -> result
         IN  CacheLiterals(tokens \ {token}, [heap EXCEPT ![id] = flagged],
                           [cache EXCEPT ![token] = id], flag)

_OptimizeConstants_NoFlag ==
    /\ \A token \in LiteralTokens : interp.cached_value_[token] = 0
    /\ LET cached == CacheLiterals(LiteralTokens, values, interp.cached_value_, "")
       IN  /\ values' = cached.values
           /\ interp' = Interpreter(cached.cached_value_,
                                    Statement("OptimizeTree", "", "", ""))
    /\ UNCHANGED <<symbols, elements, valueOp, block>>
    /\ UNCHANGED <<extVars, subVars, sigVars>>

\* EidosASTNode::_OptimizeConstants, run once over a script: every number and
\* string token gets a cached value on which SetExternalTemporary() is called
_OptimizeConstants ==
    /\ \A token \in LiteralTokens : interp.cached_value_[token] = 0
    /\ LET cached == CacheLiterals(LiteralTokens, values, interp.cached_value_,
                                   "SetExternalTemporary")
       IN  /\ values' = cached.values
           /\ interp' = Interpreter(cached.cached_value_,
                                    Statement("OptimizeTree", "", "", ""))
    /\ UNCHANGED <<symbols, elements, valueOp, block>>
    /\ UNCHANGED <<extVars, subVars, sigVars>>

\* the state the symbol table operations work on
TableState(table, heap, error) == [symbols |-> table, values |-> heap, error |-> error]

\* the table takes a value for a name in one of its two maps: a temporary value
\* is taken over (and flagged as owned), an externally permanent one is shared,
\* an externally temporary one is copied; the value the name had is deleted
BindSymbol(st, map, name, id) ==
    LET v == st.values[id]
        slot == IF IsTemporary(v) \/ IsExternalPermanent(v) THEN id ELSE LowestFree(st.values)
        taken == IF IsTemporary(v)
                 THEN [st.values EXCEPT ![id].external_temporary_ = TRUE]
                 ELSE IF IsExternalPermanent(v) THEN st.values
                 ELSE [st.values EXCEPT ![slot] =
                          [EidosValue(v.class, v.elems) EXCEPT !.external_temporary_ = TRUE]]
        old == st.symbols[map][name]
        heap == IF old # 0 /\ old # slot /\ ~IsExternalPermanent(taken[old])
                THEN [taken EXCEPT ![old] = Unallocated]
                ELSE taken
    IN  TableState([st.symbols EXCEPT ![map][name] = slot], heap, "")

\* SetValueForSymbol(name, value): assignment to a variable
SetValueForSymbol(st, name, id) ==
    IF IsConstant(st.symbols, name)
    THEN [st EXCEPT !.error = "is a constant"]
    ELSE BindSymbol(st, "variables", name, id)

DefineConstantForSymbol_Redefines(st, name, id) ==
    IF name \in st.symbols.intrinsic
    THEN [st EXCEPT !.error = "is already defined"]
    ELSE BindSymbol(st, "constants", name, id)

\* defineConstant(name, value)
DefineConstantForSymbol(st, name, id) ==
    IF ContainsSymbol(st.symbols, name)
    THEN [st EXCEPT !.error = "is already defined"]
    ELSE BindSymbol(st, "constants", name, id)

\* a name leaves one of the two maps and its value is deleted
UnbindSymbol(st, map, name) ==
    LET old == st.symbols[map][name]
    IN  TableState([st.symbols EXCEPT ![map][name] = 0],
                   IF IsExternalPermanent(st.values[old]) THEN st.values
                   ELSE [st.values EXCEPT ![old] = Unallocated],
                   "")

RemoveSymbol_RefusesConstants(st, name, remove_constants) ==
    IF name \in st.symbols.intrinsic
        THEN [st EXCEPT !.error = "is an intrinsic Eidos constant"]
    ELSE IF st.symbols.constants[name] # 0
        THEN [st EXCEPT !.error = "is a constant and cannot be removed"]
    ELSE IF st.symbols.variables[name] # 0
        THEN UnbindSymbol(st, "variables", name)
    ELSE st

\* rm(name, removeConstants)
RemoveSymbol(st, name, remove_constants) ==
    IF name \in st.symbols.intrinsic
        THEN [st EXCEPT !.error = "is an intrinsic Eidos constant"]
    ELSE IF st.symbols.constants[name] # 0
        THEN IF remove_constants
             THEN UnbindSymbol(st, "constants", name)
             ELSE [st EXCEPT !.error = "is a constant and cannot be removed"]
    ELSE IF st.symbols.variables[name] # 0
        THEN UnbindSymbol(st, "variables", name)
    ELSE st

\* Evaluate_Number / Evaluate_String of a literal node: the cached value when
\* the tree was optimized, a new temporary value otherwise
EvaluateLiteral(st, token) ==
    IF interp.cached_value_[token] # 0
    THEN [state |-> st, id |-> interp.cached_value_[token]]
    ELSE [state |-> [st EXCEPT !.values[LowestFree(st.values)] = LiteralValue(token)],
          id |-> LowestFree(st.values)]

\* a statement ends: a raise leaves the table and the heap as they were
Finish(kind, name, token, st) ==
    /\ interp' = [interp EXCEPT !.statement = Statement(kind, name, token, st.error)]
    /\ IF st.error # ""
       THEN UNCHANGED <<symbols, values>>
       ELSE symbols' = st.symbols /\ values' = st.values
    /\ UNCHANGED <<elements, valueOp, block>>
    /\ UNCHANGED <<extVars, subVars, sigVars>>

Start == TableState(symbols, values, "")

\* name = literal;
Assign(name, token) ==
    LET rvalue == EvaluateLiteral(Start, token)
    IN  Finish("Assign", name, token, SetValueForSymbol(rvalue.state, name, rvalue.id))

\* lhs = rhs;
AssignIdentifier(lhs, rhs) ==
    Finish("AssignIdentifier", lhs, rhs,
           IF ~ContainsSymbol(symbols, rhs)
           THEN [Start EXCEPT !.error = "undefined identifier"]
           ELSE SetValueForSymbol(Start, lhs, SlotOf(symbols, rhs)))

\* name[0] = literal;  an immutable value is replaced by its changed
\* MutableCopy(), a mutable one is changed in place
AssignSubscript(name, token) ==
    LET rvalue == EvaluateLiteral(Start, token)
        st == rvalue.state
        x == st.values[rvalue.id]
        base == symbols.variables[name]
        copy == LowestFree(st.values)
        \* the temporary the literal made, if any, is deleted
        Deleted(heap) == IF interp.cached_value_[token] # 0 THEN heap
                         ELSE [heap EXCEPT ![rvalue.id] = Unallocated]
    IN  Finish("AssignSubscript", name, token,
           IF ~ContainsSymbol(symbols, name)
               THEN [Start EXCEPT !.error = "undefined identifier"]
           ELSE IF IsConstant(symbols, name)
               THEN [Start EXCEPT !.error = "is a constant"]
           ELSE IF TypeOfClass(x.class) # TypeOfClass(st.values[base].class)
               THEN [Start EXCEPT !.error = "type mismatch"]
           ELSE IF IsMutable(st.values[base])
               THEN TableState(symbols, Deleted([st.values EXCEPT ![base].elems[1] = x.elems[1]]), "")
           ELSE LET changed == [st.values EXCEPT ![copy] =
                                   EidosValue(VectorClassOf(st.values[base].class), <<x.elems[1]>>)]
                    bound == SetValueForSymbol(TableState(symbols, changed, ""), name, copy)
                IN  [bound EXCEPT !.values = Deleted(bound.values)])

\* defineConstant('name', literal);
DefineConstant(name, token) ==
    LET rvalue == EvaluateLiteral(Start, token)
    IN  Finish("defineConstant", name, token,
               DefineConstantForSymbol(rvalue.state, name, rvalue.id))

\* rm('name', removeConstants);
Rm(name, remove_constants) ==
    Finish(IF remove_constants THEN "rm T" ELSE "rm", name, "",
           RemoveSymbol(Start, name, remove_constants))


----------------------------------------------------------------------------
(* The tree-walking interpreter's control flow.  The interpreter keeps the   *)
(* flag pair next_statement_hit_ / break_statement_hit_                      *)
(* (src/core/subpopulation.cpp, script_interpreter.h); its Evaluate_*        *)
(* methods are outside the source and are modelled from the specification   *)
(* and the tests (src/eidos/eidos_test.cpp).                                *)

\* syntax tree nodes.  A statement "mark" stands for an expression statement
\* with a visible effect; the condition of an if is "the innermost loop is in
\* its k-th iteration"; a loop's condition holds n times
Mark(id) == [type |-> "mark", id |-> id]
If(k, statement) == [type |-> "if", k |-> k, statement |-> statement]
Compound(statements) == [type |-> "{", statements |-> statements]
Loop(keyword, n, statement) == [type |-> keyword, n |-> n, statement |-> statement]
NextStatement == [type |-> "next"]
BreakStatement == [type |-> "break"]
ReturnStatement(value) == [type |-> "return", value |-> value]

LoopKeywords == {"do", "while", "for"}

\* the interpreter while it evaluates: the two loop flags, the return
\* sentinel, the value of the last statement, the error raised, the iteration
\* numbers of the enclosing loops (innermost last) and the log of the
\* statements with a visible effect, each with the iterations it ran in
Evaluation(next_statement_hit_, break_statement_hit_, returned, result, error, iterations, log) ==
    [next_statement_hit_ |-> next_statement_hit_,
     break_statement_hit_ |-> break_statement_hit_,
     returned |-> returned, result |-> result, error |-> error,
     iterations |-> iterations, log |-> log]

\* the interpreter as constructed
ScriptInterpreter == Evaluation(FALSE, FALSE, FALSE, "NULL", "", << >>, << >>)

\* evaluation stops unwinding at nothing: a flag, the sentinel or an error
Unwinding(ev) ==
    ev.next_statement_hit_ \/ ev.break_statement_hit_ \/ ev.returned \/ ev.error # ""

RECURSIVE EvaluateNode(_, _)
RECURSIVE Evaluate_Statements(_, _)
RECURSIVE Evaluate_Iterations_KeepsBreak(_, _, _)
RECURSIVE Evaluate_Iterations(_, _, _)
RECURSIVE Evaluate_Statements_IgnoresReturn(_, _)

Evaluate_Statements_IgnoresReturn(statements, ev) ==
    IF statements = << >> THEN ev
    ELSE LET after == EvaluateNode(Head(statements), ev)
         IN  IF after.next_statement_hit_ \/ after.break_statement_hit_ \/ after.error # ""
             THEN after
             ELSE Evaluate_Statements_IgnoresReturn(Tail(statements), after)

\* Evaluate_CompoundStatement: the statements in order, until one of them
\* starts unwinding
Evaluate_Statements(statements, ev) ==
    IF statements = << >> THEN ev
    ELSE LET after == EvaluateNode(Head(statements), ev)
         IN  IF Unwinding(after) THEN after
             ELSE Evaluate_Statements(Tail(statements), after)

\* does iteration i of a loop start?  do tests its condition after the body
IterationStarts(loop, i) == IF loop.type = "do" THEN i = 1 \/ i <= loop.n ELSE i <= loop.n

Evaluate_Iterations_KeepsBreak(loop, i, ev) ==
    IF ~IterationStarts(loop, i) THEN [ev EXCEPT !.result = "NULL"]
    ELSE LET inside == [ev EXCEPT !.iterations = Append(@, i)]
             body == EvaluateNode(loop.statement, inside)
             after == [body EXCEPT !.iterations = ev.iterations]
         IN  IF after.returned \/ after.error # "" THEN after
             ELSE IF after.next_statement_hit_
                  THEN Evaluate_Iterations_KeepsBreak(loop, i + 1,
                                                      [after EXCEPT !.next_statement_hit_ = FALSE])
             ELSE IF after.break_statement_hit_
                  THEN [after EXCEPT !.result = "NULL"]
             ELSE Evaluate_Iterations_KeepsBreak(loop, i + 1, after)

\* Evaluate_Do, Evaluate_While, Evaluate_For from iteration i on: after the
\* body a pending next is cleared and the loop goes on, a pending break is
\* cleared and the loop ends; a loop's value is NULL
Evaluate_Iterations(loop, i, ev) ==
    IF ~IterationStarts(loop, i) THEN [ev EXCEPT !.result = "NULL"]
    ELSE LET inside == [ev EXCEPT !.iterations = Append(@, i)]
             body == EvaluateNode(loop.statement, inside)
             after == [body EXCEPT !.iterations = ev.iterations]
         IN  IF after.returned \/ after.error # "" THEN after
             ELSE IF after.next_statement_hit_
                  THEN Evaluate_Iterations(loop, i + 1,
                                           [after EXCEPT !.next_statement_hit_ = FALSE])
             ELSE IF after.break_statement_hit_
                  THEN [after EXCEPT !.break_statement_hit_ = FALSE, !.result = "NULL"]
             ELSE Evaluate_Iterations(loop, i + 1, after)

\* EvaluateNode: the dispatch on the node's token
EvaluateNode(node, ev) ==
    CASE node.type = "mark" ->
             [ev EXCEPT !.log = Append(@, [id |-> node.id, iterations |-> ev.iterations]),
                        !.result = node.id]
      [] node.type = "{" -> Evaluate_Statements(node.statements, ev)
      [] node.type = "if" ->
             IF ev.iterations # << >> /\ ev.iterations[Len(ev.iterations)] = node.k
             THEN EvaluateNode(node.statement, ev)
             ELSE [ev EXCEPT !.result = "NULL"]
      [] node.type \in LoopKeywords -> Evaluate_Iterations(node, 1, ev)
      [] node.type \in {"next", "break"} ->
             IF ev.iterations = << >>
             THEN [ev EXCEPT !.error = "encountered with no enclosing loop"]
             ELSE IF node.type = "next"
                  THEN [ev EXCEPT !.next_statement_hit_ = TRUE]
                  ELSE [ev EXCEPT !.break_statement_hit_ = TRUE]
      [] node.type = "return" ->
             [ev EXCEPT !.returned = TRUE, !.result = node.value]

\* the scripts: two nested loops around marked statements, with one control
\* statement under an if, in the inner loop's body or after the inner loop
\*     a; outer { b; inner { c; [if (j == k) control;] d; } [if (i == k) control;] e; } f;
ControlStatements == {NextStatement, BreakStatement, ReturnStatement("NULL"), ReturnStatement("v")}

Script(outer, n1, inner, n2, k, control, where) ==
    LET controlled == If(k, control)
        inner_body == IF where = "inner"
                      THEN <<Mark("c"), controlled, Mark("d")>>
                      ELSE <<Mark("c"), Mark("d")>>
        inner_loop == Loop(inner, n2, Compound(inner_body))
        outer_body == IF where = "inner"
                      THEN <<Mark("b"), inner_loop, Mark("e")>>
                      ELSE <<Mark("b"), inner_loop, controlled, Mark("e")>>
    IN  [outer |-> outer, n1 |-> n1, inner |-> inner, n2 |-> n2, k |-> k,
         control |-> control, where |-> where,
         statements |-> <<Mark("a"), Loop(outer, n1, Compound(outer_body)), Mark("f")>>]

Scripts ==
    {Script(outer, n1, inner, n2, k, control, where) :
        outer \in LoopKeywords, n1 \in 0..MaxIterations,
        inner \in LoopKeywords, n2 \in 0..MaxIterations,
        k \in 1..MaxIterations, control \in ControlStatements,
        where \in {"inner", "outer"}}

\* a script that was parsed and is not run yet
Parsed(script) == [script |-> script, done |-> FALSE, evaluation |-> ScriptInterpreter]

\* EvaluateInterpreterBlock: the statements of the script in order; the
\* receiver of the block detects the return sentinel and yields the value
EvaluateInterpreterBlock ==
    /\ ~block.done
    /\ block' = [block EXCEPT !.done = TRUE,
                              !.evaluation = Evaluate_Statements(block.script.statements,
                                                                 block.evaluation)]
    /\ UNCHANGED <<symbols, interp>>
    /\ UNCHANGED <<extVars, subVars, sigVars, valueVars>>


----------------------------------------------------------------------------
(* Chromosome::DrawMutationAndBreakpointCounts (src/unnamed/part_002,       *)
(* chromosome.h).  A probability is a number of UGrid-ths.  The thresholds  *)
(* are set by InitializeDraws and the non-zero counts are drawn by          *)
(* slim_fast_ran_poisson_nonzero; both are outside the source and are       *)
(* modelled from the specification.                                         *)

\* Chromosome::InitializeDraws: the three cumulated probabilities of the cases
\* both counts zero, no mutation and a breakpoint, a mutation and no breakpoint
Chromosomes ==
    {c \in [probability_both_0 : 0..UGrid,
            probability_both_0_OR_mut_0_break_non0 : 0..UGrid,
            probability_both_0_OR_mut_0_break_non0_OR_mut_non0_break_0 : 0..UGrid] :
        /\ c.probability_both_0 <= c.probability_both_0_OR_mut_0_break_non0
        /\ c.probability_both_0_OR_mut_0_break_non0
              <= c.probability_both_0_OR_mut_0_break_non0_OR_mut_non0_break_0}

\* slim_fast_ran_poisson_nonzero: the counts a Poisson draw conditioned on not
\* being zero can give
slim_fast_ran_poisson_nonzero == 1..MaxCount

\* no draw made yet
NoDraw == [u |-> 0, uniforms |-> 0, mut_count |-> 0, break_count |-> 0]

\* the counts with the cases of a mutation and of a breakpoint exchanged
DrawCounts_CasesExchanged(c, u, mut_nonzero, break_nonzero) ==
    IF u <= c.probability_both_0
    THEN [u |-> u, uniforms |-> 1, mut_count |-> 0, break_count |-> 0]
    ELSE IF u <= c.probability_both_0_OR_mut_0_break_non0
    THEN [u |-> u, uniforms |-> 1, mut_count |-> mut_nonzero, break_count |-> 0]
    ELSE IF u <= c.probability_both_0_OR_mut_0_break_non0_OR_mut_non0_break_0
    THEN [u |-> u, uniforms |-> 1, mut_count |-> 0, break_count |-> break_nonzero]
    ELSE [u |-> u, uniforms |-> 1, mut_count |-> mut_nonzero, break_count |-> break_nonzero]

\* the body of DrawMutationAndBreakpointCounts: u is the value of the one call
\* of gsl_rng_uniform, mut_nonzero and break_nonzero are what the non-zero
\* Poisson draws give where they are made
DrawCounts(c, u, mut_nonzero, break_nonzero) ==
    IF u <= c.probability_both_0
    THEN [u |-> u, uniforms |-> 1, mut_count |-> 0, break_count |-> 0]
    ELSE IF u <= c.probability_both_0_OR_mut_0_break_non0
    THEN [u |-> u, uniforms |-> 1, mut_count |-> 0, break_count |-> break_nonzero]
    ELSE IF u <= c.probability_both_0_OR_mut_0_break_non0_OR_mut_non0_break_0
    THEN [u |-> u, uniforms |-> 1, mut_count |-> mut_nonzero, break_count |-> 0]
    ELSE [u |-> u, uniforms |-> 1, mut_count |-> mut_nonzero, break_count |-> break_nonzero]

\* Chromosome::DrawMutationAndBreakpointCounts
DrawMutationAndBreakpointCounts(u, mut_nonzero, break_nonzero) ==
    /\ draw' = DrawCounts(chromosome, u, mut_nonzero, break_nonzero)
    /\ UNCHANGED <<chromosome, individual, copies, tree>>
    /\ UNCHANGED <<subVars, sigVars, valueVars, interpVars>>

----------------------------------------------------------------------------
(* Subpopulation::DrawIndividual, and the copies of a Subpopulation         *)
(* (src/core/subpopulation.cpp).  gsl_ran_discrete is a third-party         *)
(* library call: it returns an index of the lookup table it is given.       *)

\* gsl_ran_discrete(g_rng, table): an index below the K of the table
gsl_ran_discrete(table) == 0..(table.K - 1)

\* Subpopulation::DrawIndividual
DrawIndividual ==
    /\ \E i \in gsl_ran_discrete(lookup_individual_) : individual' = i
    /\ subOp' = "DrawIndividual"
    /\ UNCHANGED <<subpop_size_, parent_genomes_, child_genomes_, lookup_individual_, sig, op>>
    /\ UNCHANGED <<valueVars, interpVars, chromosome, draw, copies, tree>>

\* the two Subpopulation objects of the copy model, and the samplers that
\* gsl_ran_discrete_preproc allocates
SubpopulationObjects == {"original", "other"}
Samplers == 1..MaxSamplers
NoSampler == 0

\* the next sampler gsl_ran_discrete_preproc returns
NewSampler(c) == CHOOSE s \in Samplers : c.heap[s] = "unallocated" /\
                    \A t \in Samplers : c.heap[t] = "unallocated" => s <= t

\* the original constructed by Subpopulation(int) (lines 83-100); the other
\* object either constructed the same way or not yet constructed
CopiesAtRest ==
    [lookup_individual_ |-> [o \in SubpopulationObjects |->
                                IF o = "original" THEN 1 ELSE NoSampler],
     heap |-> [s \in Samplers |-> IF s = 1 THEN "allocated" ELSE "unallocated"],
     fault |-> "",
     op |-> "Subpopulation"]

BothConstructed ==
    [CopiesAtRest EXCEPT !.lookup_individual_["other"] = 2, !.heap[2] = "allocated"]

\* Subpopulation(const Subpopulation&), lines 30-50: the other object is
\* constructed as a copy of the original
CopyConstruct ==
    /\ copies.lookup_individual_["other"] = NoSampler
    /\ copies' = [copies EXCEPT
                     !.lookup_individual_["other"] = copies.lookup_individual_["original"],
                     !.op = "copy"]
    /\ UNCHANGED <<chromosome, draw, individual, tree>>
    /\ UNCHANGED <<subVars, sigVars, valueVars, interpVars>>

\* operator=, lines 52-72: an object that exists is assigned from the other one
CopyAssign(to, from) ==
    /\ copies.lookup_individual_[to] # NoSampler
    /\ copies.lookup_individual_[from] # NoSampler
    /\ copies' = [copies EXCEPT
                     !.lookup_individual_[to] = copies.lookup_individual_[from],
                     !.op = "assign"]
    /\ UNCHANGED <<chromosome, draw, individual, tree>>
    /\ UNCHANGED <<subVars, sigVars, valueVars, interpVars>>

\* UpdateFitness on one of the objects, lines 107-118: gsl_ran_discrete_free of
\* the old lookup table, then a new table from gsl_ran_discrete_preproc
UpdateFitnessOf(c, o) ==
    LET old == c.lookup_individual_[o]
        freed == [c EXCEPT !.heap[old] = "freed",
                           !.fault = IF c.heap[old] = "freed" THEN "freed twice" ELSE @]
    IN  [freed EXCEPT !.lookup_individual_[o] = NewSampler(freed),
                      !.heap[NewSampler(freed)] = "allocated",
                      !.op = "UpdateFitness"]

UpdateFitnessOfObject(o) ==
    /\ copies.lookup_individual_[o] # NoSampler
    /\ copies.fault = ""
    /\ \E s \in Samplers : copies.heap[s] = "unallocated"
    /\ copies' = UpdateFitnessOf(copies, o)
    /\ UNCHANGED <<chromosome, draw, individual, tree>>
    /\ UNCHANGED <<subVars, sigVars, valueVars, interpVars>>

\* DrawIndividual on one of the objects, lines 102-105: gsl_ran_discrete reads
\* the lookup table the object points to
DrawIndividualOfObject(o) ==
    /\ copies.lookup_individual_[o] # NoSampler
    /\ copies.fault = ""
    /\ copies' = [copies EXCEPT
                     !.fault = IF copies.heap[copies.lookup_individual_[o]] = "freed"
                               THEN "used after free" ELSE @,
                     !.op = "DrawIndividual"]
    /\ UNCHANGED <<chromosome, draw, individual, tree>>
    /\ UNCHANGED <<subVars, sigVars, valueVars, interpVars>>

----------------------------------------------------------------------------
(* EidosASTNode (src/eidos/eidos_ast_node.cpp): the syntax tree, the values  *)
(* OptimizeTree caches in it and the destructor.  A token string is a        *)
(* sequence of characters.  The registry of interned strings                 *)
(* (EidosGlobalStringIDForString) is outside the source and is modelled from *)
(* the specification and the tests (src/eidos/eidos_test.cpp).               *)

Digits == [c \in {"0", "1", "2", "3", "4", "5", "6", "7", "8", "9"} |->
              CASE c = "0" -> 0 [] c = "1" -> 1 [] c = "2" -> 2 [] c = "3" -> 3 [] c = "4" -> 4
                [] c = "5" -> 5 [] c = "6" -> 6 [] c = "7" -> 7 [] c = "8" -> 8 [] c = "9" -> 9]

\* std::string::find(c) != string::npos
Find(str, c) == \E i \in 1..Len(str) : str[i] = c

\* the number a run of digits denotes, and the length of the run of digits
\* str starts with
RECURSIVE DigitsValue(_)
DigitsValue(str) ==
    IF str = << >> THEN 0 ELSE 10 * DigitsValue(SubSeq(str, 1, Len(str) - 1)) + Digits[str[Len(str)]]

RECURSIVE DigitsRun(_)
DigitsRun(str) ==
    IF str = << >> \/ str[1] \notin DOMAIN Digits THEN 0 ELSE 1 + DigitsRun(Tail(str))

RECURSIVE Power10(_)
Power10(n) == IF n = 0 THEN 1 ELSE 10 * Power10(n - 1)

\* strtod: digits, an optional fraction, an optional exponent with an optional
\* sign; the double is held as mantissa * 10^exponent
strtod(str) ==
    LET whole_len == DigitsRun(str)
        after_whole == SubSeq(str, whole_len + 1, Len(str))
        has_point == after_whole # << >> /\ after_whole[1] = "."
        after_point == IF has_point THEN Tail(after_whole) ELSE after_whole
        frac_len == IF has_point THEN DigitsRun(after_point) ELSE 0
        after_frac == SubSeq(after_point, frac_len + 1, Len(after_point))
        has_exp == after_frac # << >> /\ after_frac[1] \in {"e", "E"}
        after_e == IF has_exp THEN Tail(after_frac) ELSE << >>
        has_sign == after_e # << >> /\ after_e[1] \in {"+", "-"}
        negative == has_sign /\ after_e[1] = "-"
        exp_digits == IF has_sign THEN Tail(after_e) ELSE after_e
        exp_value == DigitsValue(SubSeq(exp_digits, 1, DigitsRun(exp_digits)))
    IN  [mantissa |-> DigitsValue(SubSeq(str, 1, whole_len) \o SubSeq(after_point, 1, frac_len)),
         exponent |-> (IF negative THEN -exp_value ELSE exp_value) - frac_len]

\* the whole part of a double, and whether it is in the range of an int
WholePart(d) == IF d.exponent >= 0 THEN d.mantissa * Power10(d.exponent)
                ELSE d.mantissa \div Power10(-d.exponent)
FitsInt(d) == WholePart(d) <= IntMax

\* static_cast<int64_t>(double): the truncated value when it is in range; the
\* conversion of a value out of range is undefined, and gives the smallest int
\* on some builds and the largest on others
CastBehaviours == {"indefinite", "saturate"}
static_cast_int64_t(d, p_cast) ==
    IF FitsInt(d) THEN WholePart(d)
    ELSE IF p_cast = "indefinite" THEN IntMin ELSE IntMax

\* strtoll: the value of the digits, the largest int when it is out of range
strtoll(str) ==
    LET value == DigitsValue(SubSeq(str, 1, DigitsRun(str)))
    IN  IF value > IntMax THEN IntMax ELSE value

\* lines 95-104: the value made for a number token
\* EidosValue_Float_singleton_const, EidosValue_Int_singleton_const and
\* EidosValue_String holding one value
FloatSingleton(d) == [type |-> "float", mantissa |-> d.mantissa, exponent |-> d.exponent, text |-> << >>]
IntSingleton(i) == [type |-> "int", mantissa |-> i, exponent |-> 0, text |-> << >>]
StringValue(str) == [type |-> "string", mantissa |-> 0, exponent |-> 0, text |-> str]

ValueOfNumber(number_string, p_cast) ==
    IF Find(number_string, ".") \/ Find(number_string, "-")
    THEN FloatSingleton(strtod(number_string))
    ELSE IF Find(number_string, "e") \/ Find(number_string, "E")
    THEN IntSingleton(static_cast_int64_t(strtod(number_string), p_cast))
    ELSE IntSingleton(strtoll(number_string))

\* EidosGlobalStringIDForString: the interned names of properties and methods
\* and of the zero-generation functions; gID_none for every other string
PropertyNames == {"_yolk"}
MethodNames == {"_cubicYolk"}
ZeroGenerationFunctionNames == {"initializeMutationRate"}
gID_none == ""
EidosGlobalStringIDForString(str) ==
    IF str \in PropertyNames \cup MethodNames \cup ZeroGenerationFunctionNames
    THEN str ELSE gID_none

\* EidosASTNode::EidosASTNode
EidosASTNode(token_type, token_string, children) ==
    [token_type |-> token_type, token_string |-> token_string, children_ |-> children,
     cached_value_ |-> 0, cached_value_is_owned_ |-> FALSE,
     cached_signature_ |-> "", cached_stringID |-> gID_none]

\* a tree: its nodes (the root is node 1), the values allocated for it with
\* the number of times each was deleted, and what was done to it
Tree(nodes) ==
    [nodes |-> nodes, heap |-> << >>, error |-> "", optimized |-> 0, destroyed |-> FALSE]

NoTree == Tree(<<EidosASTNode("kTokenLBrace", << >>, << >>)>>)

\* new EidosValue: a value is added to the heap and its index is the pointer
New(t, value) == [t EXCEPT !.heap = Append(@, [value |-> value, deleted |-> 0])]

\* EidosASTNode::_OptimizeConstants, lines 86-154
RECURSIVE OptimizeConstants(_, _, _)
RECURSIVE OptimizeConstantsOfChildren(_, _, _)
OptimizeConstantsOfChildren(t, children, p_cast) ==
    IF children = << >> THEN t
    ELSE OptimizeConstantsOfChildren(OptimizeConstants(t, Head(children), p_cast),
                                     Tail(children), p_cast)

OptimizeConstants(t0, n, p_cast) ==
    LET t == OptimizeConstantsOfChildren(t0, t0.nodes[n].children_, p_cast)
        node == t.nodes[n]
    IN  IF node.token_type = "kTokenNumber"
        THEN [New(t, ValueOfNumber(node.token_string, p_cast))
                 EXCEPT !.nodes[n].cached_value_ = Len(t.heap) + 1,
                        !.nodes[n].cached_value_is_owned_ = TRUE]
        ELSE IF node.token_type = "kTokenString"
        THEN [New(t, StringValue(node.token_string))
                 EXCEPT !.nodes[n].cached_value_ = Len(t.heap) + 1,
                        !.nodes[n].cached_value_is_owned_ = TRUE]
        ELSE IF node.token_type \in {"kTokenReturn", "kTokenLBrace"}
                /\ Len(node.children_) = 1
                /\ t.nodes[node.children_[1]].cached_value_ # 0
        THEN [t EXCEPT !.nodes[n].cached_value_ = t.nodes[node.children_[1]].cached_value_,
                       !.nodes[n].cached_value_is_owned_ = FALSE]
        ELSE t

\* EidosASTNode::_OptimizeIdentifiers, lines 156-209; a raise ends the pass
RECURSIVE OptimizeIdentifiers(_, _)
RECURSIVE OptimizeIdentifiersOfChildren(_, _)
OptimizeIdentifiersOfChildren(t, children) ==
    IF children = << >> \/ t.error # "" THEN t
    ELSE OptimizeIdentifiersOfChildren(OptimizeIdentifiers(t, Head(children)), Tail(children))

OptimizeIdentifiers(t0, n) ==
    LET t == OptimizeIdentifiersOfChildren(t0, t0.nodes[n].children_)
        node == t.nodes[n]
    IN  IF t.error # "" THEN t
        ELSE IF node.token_type = "kTokenIdentifier"
        THEN [t EXCEPT !.nodes[n].cached_signature_ =
                           IF node.token_string \in DOMAIN BuiltInFunctionMap
                           THEN node.token_string ELSE @,
                       !.nodes[n].cached_stringID = EidosGlobalStringIDForString(node.token_string)]
        ELSE IF node.token_type = "kTokenLParen"
                /\ Len(node.children_) >= 1
                /\ t.nodes[node.children_[1]].token_type = "kTokenIdentifier"
                /\ t.nodes[node.children_[1]].cached_signature_ = ""
                /\ t.nodes[node.children_[1]].cached_stringID = gID_none
        THEN [t EXCEPT !.error = "unrecognized function name"]
        ELSE IF node.token_type = "kTokenDot"
                /\ Len(node.children_) >= 2
                /\ t.nodes[node.children_[2]].token_type = "kTokenIdentifier"
                /\ t.nodes[node.children_[2]].cached_stringID = gID_none
        THEN [t EXCEPT !.error = "unrecognized property or method name"]
        ELSE t

\* EidosASTNode::~EidosASTNode, lines 40-58: the children are deleted, then the
\* cached value when the node owns it
RECURSIVE Destroy(_, _)
RECURSIVE DestroyChildren(_, _)
DestroyChildren(t, children) ==
    IF children = << >> THEN t
    ELSE DestroyChildren(Destroy(t, Head(children)), Tail(children))

Destroy(t0, n) ==
    LET t == DestroyChildren(t0, t0.nodes[n].children_)
        node == t.nodes[n]
    IN  IF node.cached_value_ # 0
        THEN [t EXCEPT !.heap[node.cached_value_].deleted =
                           IF node.cached_value_is_owned_ THEN @ + 1 ELSE @,
                       !.nodes[n].cached_value_ = 0]
        ELSE t

\* the trees: a literal in a compound statement, a literal returned, a call of
\* a function on a literal, a property of a literal
NumberStrings == {<<"3">>, <<"3", "e", "0">>, <<"2", "e", "1">>, <<"3", ".", "1">>,
                 <<"3", "1", "e", "-", "1">>, <<"3", "E", "+", "0">>, <<"9">>}
Callees == {"rep", "initializeMutationRate", "_yolk", "_cubicYolk", "foo"}

Trees ==
    {Tree(<<EidosASTNode("kTokenLBrace", << >>, <<2>>),
            EidosASTNode("kTokenNumber", number, << >>)>>) : number \in NumberStrings}
    \cup
    {Tree(<<EidosASTNode("kTokenLBrace", << >>, <<2>>),
            EidosASTNode("kTokenReturn", << >>, <<3>>),
            EidosASTNode("kTokenString", <<"f", "o", "o">>, << >>)>>),
     Tree(<<EidosASTNode("kTokenLBrace", << >>, <<2, 3>>),
            EidosASTNode("kTokenNumber", <<"3">>, << >>),
            EidosASTNode("kTokenString", <<"f", "o", "o">>, << >>)>>)}
    \cup
    {Tree(<<EidosASTNode("kTokenLBrace", << >>, <<2>>),
            EidosASTNode("kTokenReturn", << >>, <<3>>),
            EidosASTNode("kTokenNumber", number, << >>)>>) : number \in NumberStrings}
    \cup
    {Tree(<<EidosASTNode("kTokenLBrace", << >>, <<2>>),
            EidosASTNode("kTokenLParen", << >>, <<3, 4>>),
            EidosASTNode("kTokenIdentifier", callee, << >>),
            EidosASTNode("kTokenNumber", <<"3">>, << >>)>>) : callee \in Callees}
    \cup
    {Tree(<<EidosASTNode("kTokenLBrace", << >>, <<2>>),
            EidosASTNode("kTokenDot", << >>, <<3, 4>>),
            EidosASTNode("kTokenNumber", <<"3">>, << >>),
            EidosASTNode("kTokenIdentifier", member, << >>)>>) : member \in {"_yolk", "foo"}}

\* EidosASTNode::OptimizeTree on the root, lines 80-84
OptimizeTree(p_cast) ==
    /\ ~tree.destroyed
    /\ tree.error = ""
    /\ tree.optimized < MaxOptimize
    /\ tree' = [OptimizeIdentifiers(OptimizeConstants(tree, 1, p_cast), 1)
                   EXCEPT !.optimized = @ + 1]
    /\ UNCHANGED <<chromosome, draw, individual, copies>>
    /\ UNCHANGED <<subVars, sigVars, valueVars, interpVars>>

\* delete of the root
DestroyTree ==
    /\ ~tree.destroyed
    /\ tree' = [Destroy(tree, 1) EXCEPT !.destroyed = TRUE]
    /\ UNCHANGED <<chromosome, draw, individual, copies>>
    /\ UNCHANGED <<subVars, sigVars, valueVars, interpVars>>

\* the state of what the other specifications leave alone
ExtensionsAtRest ==
    /\ individual = 0
    /\ chromosome = [probability_both_0 |-> 0,
                     probability_both_0_OR_mut_0_break_non0 |-> 0,
                     probability_both_0_OR_mut_0_break_non0_OR_mut_non0_break_0 |-> 0]
    /\ draw = NoDraw
    /\ copies = CopiesAtRest
    /\ tree = NoTree

----------------------------------------------------------------------------
(* Specifications *)

\* the scripting runtime at rest: a signature without arguments, no call made
ScriptIdle == sig = FunctionSignature(Mask(kValueMaskNULL, FALSE, FALSE)) /\ op = Idle

\* the value layer at rest: no value object allocated, both elements externally
\* managed and untouched
ValuesAtRest ==
    /\ values = [id \in 1..MaxValues |-> Unallocated]
    /\ elements = [e \in ElementIds |-> EidosObjectElement(FALSE)]
    /\ valueOp = ValueOperation("", 0, "", Unallocated, 0)

\* the interpreter at rest
InterpreterAtRest ==
    /\ symbols = SymbolTable
    /\ interp = Interpreter([token \in LiteralTokens |-> 0], Statement("", "", "", ""))
    /\ block = Parsed(Script("for", 0, "for", 0, 1, NextStatement, "inner"))


\* the pairs of genomes of one individual
GenomePairs == {p \in Genomes(MaxMut) \X Genomes(MaxMut) : Len(p[1]) + Len(p[2]) <= MaxMut}

\* SpecFit: a subpopulation of one individual whose two parent genomes were
\* filled by the kernel and published by a swap; its fitness is then evaluated
InitFit ==
    /\ subpop_size_ = 1
    /\ \E p \in GenomePairs : parent_genomes_ = <<p[1], p[2]>>
    /\ child_genomes_ = <<EmptyGenome, EmptyGenome>>
    /\ lookup_individual_ = gsl_ran_discrete_preproc(1, <<One>>)
    /\ subOp = "SwapChildAndParentGenomes"
    /\ ScriptIdle
    /\ ValuesAtRest
    /\ InterpreterAtRest
    /\ ExtensionsAtRest

NextFit == UpdateFitness

SpecFit == InitFit /\ [][NextFit]_vars

\* SpecSub: a subpopulation from its construction on
InitSub ==
    /\ \E n \in 1..MaxN : Constructed(n)
    /\ subOp = "Subpopulation"
    /\ ScriptIdle
    /\ ValuesAtRest
    /\ InterpreterAtRest
    /\ ExtensionsAtRest

NextSub ==
    \/ \E i \in 1..(2 * MaxN), g \in FillGenomes : i <= Len(child_genomes_) /\ FillChild(i, g)
    \/ SwapChildAndParentGenomes
    \/ UpdateFitness

SpecSub == InitSub /\ [][NextSub]_vars

\* a subpopulation that is constructed and not used
SubpopulationAtRest == Constructed(1) /\ subOp = "Subpopulation"

\* the masks signatures are built from
ArgMasks == {Mask(t, o, g) : t \in {kValueMaskInt, kValueMaskAny}, o \in BOOLEAN, g \in BOOLEAN}
ReturnMasks == {Mask(kValueMaskInt, FALSE, FALSE), Mask(kValueMaskInt, FALSE, TRUE),
                Mask(kValueMaskAny, FALSE, FALSE)}

\* the values passed to and returned by methods
MethodValues == {ScriptValue_NULL,
                 Value("int", <<Element("", 3)>>),
                 Value("int", <<Element("", 3), Element("", 7)>>),
                 Value("object", <<Element("", 7)>>)}

\* the values passed to the built-in functions
FunctionValues == MethodValues \cup
                  {Value("logical", <<Element("", 1)>>),
                   Value("logical", <<Element("", 0), Element("", 1)>>),
                   Value("int", << >>),
                   Value("float", <<Element("", 31)>>),
                   Value("string", <<Element("lit", 1)>>),
                   Value("string", <<Element("lit", 2), Element("lit", 3)>>),
                   Value("object", <<Element("", 3), Element("", 9)>>)}

ArgumentLists(vals) == UNION {[1..n -> vals] : n \in 0..MaxCallArgs}

\* SpecSig: a signature is built by AddArg and AddEllipsis and used to check
\* method calls and their results; built-in functions are called alongside
InitSig ==
    /\ \E m \in ReturnMasks : sig = FunctionSignature(m)
    /\ op = Idle
    /\ SubpopulationAtRest
    /\ ValuesAtRest
    /\ InterpreterAtRest
    /\ ExtensionsAtRest

NextSig ==
    \/ \E m \in ArgMasks : AddArg(m)
    \/ AddEllipsis
    \/ \E a \in ArgumentLists(MethodValues), r \in MethodValues : ExecuteMethodCall(a, r)
    \/ \E a \in ArgumentLists(MethodValues) : ExecuteFunctionCall("c", a)
    \/ Return

SpecSig == InitSig /\ [][NextSig]_vars

\* SpecCall: calls of the built-in functions
InitCall ==
    /\ ScriptIdle
    /\ SubpopulationAtRest
    /\ ValuesAtRest
    /\ InterpreterAtRest
    /\ ExtensionsAtRest

NextCall ==
    \/ \E a \in ArgumentLists(FunctionValues) : ExecuteFunctionCall("c", a)
    \/ Return

SpecCall == InitCall /\ [][NextCall]_vars

\* the values passed to rep and repEach
RepValues == {ScriptValue_NULL,
              Value("logical", <<Element("", 1)>>),
              Value("int", << >>),
              Value("int", <<Element("", 3)>>),
              Value("int", <<Element("", -1)>>),
              Value("int", <<Element("", 2)>>),
              Value("int", <<Element("", 2), Element("", -1)>>),
              Value("float", <<Element("", 35)>>),
              Value("string", <<Element("lit", 1)>>),
              Value("object", <<Element("", 7)>>)}

\* SpecRep: calls of rep and repEach
InitRep ==
    /\ ScriptIdle
    /\ SubpopulationAtRest
    /\ ValuesAtRest
    /\ InterpreterAtRest
    /\ ExtensionsAtRest

NextRep ==
    \/ \E a \in ArgumentLists(RepValues) : ExecuteFunctionCall("rep", a)
    \/ \E a \in ArgumentLists(RepValues) : ExecuteFunctionCall("repEach", a)
    \/ Return

SpecRep == InitRep /\ [][NextRep]_vars

\* the values passed to seq: every int, two floats, and values that fail the
\* argument check
SeqValues == {Value("int", <<Element("", n)>>) : n \in IntMin..IntMax}
             \cup {Value("float", <<Element("", 11)>>), Value("float", <<Element("", -5)>>),
                   Value("float", <<Element("", 0)>>),
                   Value("int", <<Element("", 1), Element("", 2)>>),
                   Value("string", <<Element("lit", 1)>>)}

SeqArgumentLists == [1..2 -> SeqValues] \cup [1..3 -> SeqValues]

\* SpecSeq: calls of seq
InitSeq ==
    /\ ScriptIdle
    /\ SubpopulationAtRest
    /\ ValuesAtRest
    /\ InterpreterAtRest
    /\ ExtensionsAtRest

NextSeq ==
    \/ \E a \in SeqArgumentLists : ExecuteFunctionCall("seq", a)
    \/ Return

SpecSeq == InitSeq /\ [][NextSeq]_vars

\* the values passed to the built-in functions at large
BuiltInValues == {ScriptValue_NULL,
                  Value("logical", <<Element("", 1)>>),
                  Value("int", <<Element("", 2)>>),
                  Value("int", <<Element("", IntMin), Element("", 1)>>),
                  Value("float", <<Element("", -15)>>),
                  Value("string", <<Element("lit", 1)>>),
                  Value("object", <<Element("", 7)>>)}

BuiltInArgumentLists == UNION {[1..n -> BuiltInValues] : n \in 0..3}

\* SpecBuiltIn: calls of every function of the built-in function map
InitBuiltIn ==
    /\ ScriptIdle
    /\ SubpopulationAtRest
    /\ ValuesAtRest
    /\ InterpreterAtRest
    /\ ExtensionsAtRest

NextBuiltIn ==
    \/ \E name \in DOMAIN BuiltInFunctionMap, a \in BuiltInArgumentLists :
          ExecuteFunctionCall(name, a)
    \/ Return

SpecBuiltIn == InitBuiltIn /\ [][NextBuiltIn]_vars

\* SpecValue: value objects of every class are constructed, changed in place
\* and copied; the object elements are externally managed
InitValue ==
    /\ ValuesAtRest
    /\ SubpopulationAtRest
    /\ ScriptIdle
    /\ InterpreterAtRest
    /\ ExtensionsAtRest

NextValue ==
    \/ \E a \in ConstructorArguments : Construct(a[1], a[2])
    \/ \E self \in 1..MaxValues, p_idx \in 0..1, p_value \in 1..MaxValues :
           SetValueAtIndex(self, p_idx, p_value)
    \/ \E self \in 1..MaxValues, p_idx \in 0..1, source \in 1..MaxValues :
           PushValueFromIndexOfEidosValue(self, p_idx, source)
    \/ \E self \in 1..MaxValues, p_ascending \in BOOLEAN : Sort(self, p_ascending)
    \/ \E self \in 1..MaxValues : MutableCopy(self)

SpecValue == InitValue /\ [][NextValue]_vars

\* the constructors of the object classes
ObjectConstructorArguments == {a \in ConstructorArguments : TypeOfClass(a[1]) = "object"}

\* SpecElement: object values are constructed over an element, copied, changed
\* and deleted, and the element's allocator releases its reference
InitElement ==
    /\ values = [id \in 1..MaxValues |-> Unallocated]
    /\ \E internal \in [ElementIds -> BOOLEAN] :
           elements = [e \in ElementIds |-> EidosObjectElement(internal[e])]
    /\ valueOp = ValueOperation("", 0, "", Unallocated, 0)
    /\ SubpopulationAtRest
    /\ ScriptIdle
    /\ InterpreterAtRest
    /\ ExtensionsAtRest

NextElement ==
    \/ \E a \in ObjectConstructorArguments : Construct(a[1], a[2])
    \/ \E self \in 1..MaxValues : Destruct(self)
    \/ \E e \in ElementIds : ReleaseByAllocator(e)
    \/ \E self \in 1..MaxValues, p_idx \in 0..1, p_value \in 1..MaxValues :
           SetValueAtIndex(self, p_idx, p_value)
    \/ \E self \in 1..MaxValues, p_idx \in 0..1, source \in 1..MaxValues :
           PushValueFromIndexOfEidosValue(self, p_idx, source)
    \/ \E self \in 1..MaxValues : MutableCopy(self)

SpecElement == InitElement /\ [][NextElement]_vars

\* SpecOwnership: value objects are constructed, handed to owners that set the
\* ownership flags, and deleted
InitOwnership ==
    /\ ValuesAtRest
    /\ SubpopulationAtRest
    /\ ScriptIdle
    /\ InterpreterAtRest
    /\ ExtensionsAtRest

NextOwnership ==
    \/ \E a \in ConstructorArguments : Construct(a[1], a[2])
    \/ \E self \in 1..MaxValues : SetExternalTemporary(self)
    \/ \E self \in 1..MaxValues : SetExternalPermanent(self)
    \/ \E self \in 1..MaxValues : Destruct(self)

SpecOwnership == InitOwnership /\ [][NextOwnership]_vars

\* SpecSymbols: the statements of a script run against the symbol table, before
\* or after the script's syntax tree has cached its literals
InitSymbols ==
    /\ values = [id \in SymbolHeap |-> Unallocated]
    /\ elements = [e \in ElementIds |-> EidosObjectElement(FALSE)]
    /\ valueOp = ValueOperation("", 0, "", Unallocated, 0)
    /\ InterpreterAtRest
    /\ SubpopulationAtRest
    /\ ScriptIdle
    /\ ExtensionsAtRest

\* the script is parsed and its tree optimized before any statement runs
TreeOptimized == \A token \in LiteralTokens : interp.cached_value_[token] # 0

NextSymbols ==
    \/ _OptimizeConstants
    \/ \E name \in UserNames, token \in LiteralTokens :
           TreeOptimized /\ Assign(name, token)
    \/ \E name \in IntrinsicNames, token \in NumberTokens :
           TreeOptimized /\ Assign(name, token)
    \/ \E lhs \in SymbolNames, rhs \in UserNames :
           TreeOptimized /\ (lhs \in IntrinsicNames => rhs = "x") /\ AssignIdentifier(lhs, rhs)
    \/ \E name \in UserNames, token \in LiteralTokens :
           TreeOptimized /\ AssignSubscript(name, token)
    \/ \E name \in UserNames, token \in LiteralTokens :
           TreeOptimized /\ DefineConstant(name, token)
    \/ \E name \in IntrinsicNames, token \in NumberTokens :
           TreeOptimized /\ DefineConstant(name, token)
    \/ \E name \in SymbolNames, remove_constants \in BOOLEAN :
           TreeOptimized /\ Rm(name, remove_constants)

SpecSymbols == InitSymbols /\ [][NextSymbols]_vars

\* SpecBlock: a script with nested loops is parsed and evaluated
InitBlock ==
    /\ \E script \in Scripts : block = Parsed(script)
    /\ symbols = SymbolTable
    /\ interp = Interpreter([token \in LiteralTokens |-> 0], Statement("", "", "", ""))
    /\ ValuesAtRest
    /\ SubpopulationAtRest
    /\ ScriptIdle
    /\ ExtensionsAtRest

NextBlock == EvaluateInterpreterBlock

SpecBlock == InitBlock /\ [][NextBlock]_vars

\* SpecDrawCounts: a chromosome whose draws are initialized, and the joint
\* draws of the mutation and breakpoint counts
InitDrawCounts ==
    /\ ScriptIdle
    /\ SubpopulationAtRest
    /\ ValuesAtRest
    /\ InterpreterAtRest
    /\ chromosome \in Chromosomes
    /\ draw = NoDraw
    /\ individual = 0
    /\ copies = CopiesAtRest
    /\ tree = NoTree

NextDrawCounts ==
    \E u \in 0..UGrid, mut_nonzero \in slim_fast_ran_poisson_nonzero,
       break_nonzero \in slim_fast_ran_poisson_nonzero :
        DrawMutationAndBreakpointCounts(u, mut_nonzero, break_nonzero)

SpecDrawCounts == InitDrawCounts /\ [][NextDrawCounts]_vars

\* SpecDraw: a subpopulation of size N, for the sizes N of DrawSizes, whose
\* individuals are drawn between fitness updates and generation swaps
DrawSizes == {1, 2}

InitDraw ==
    /\ \E n \in DrawSizes : Constructed(n)
    /\ subOp = "Subpopulation"
    /\ ScriptIdle
    /\ ValuesAtRest
    /\ InterpreterAtRest
    /\ ExtensionsAtRest

NextDraw ==
    \/ \E i \in 1..Len(child_genomes_), g \in FillGenomes : FillChild(i, g)
    \/ SwapChildAndParentGenomes
    \/ UpdateFitness
    \/ DrawIndividual

SpecDraw == InitDraw /\ [][NextDraw]_vars

\* SpecCopies: a Subpopulation and a second one that is copy-constructed or
\* assigned from it, then used
InitCopies ==
    /\ ScriptIdle
    /\ SubpopulationAtRest
    /\ ValuesAtRest
    /\ InterpreterAtRest
    /\ copies \in {CopiesAtRest, BothConstructed}
    /\ individual = 0
    /\ chromosome = [probability_both_0 |-> 0,
                     probability_both_0_OR_mut_0_break_non0 |-> 0,
                     probability_both_0_OR_mut_0_break_non0_OR_mut_non0_break_0 |-> 0]
    /\ draw = NoDraw
    /\ tree = NoTree

NextCopies ==
    \/ CopyConstruct
    \/ \E to \in SubpopulationObjects, from \in SubpopulationObjects : CopyAssign(to, from)
    \/ \E o \in SubpopulationObjects : UpdateFitnessOfObject(o)
    \/ \E o \in SubpopulationObjects : DrawIndividualOfObject(o)

SpecCopies == InitCopies /\ [][NextCopies]_vars

\* SpecTree: a syntax tree that is optimized and destroyed
InitTree ==
    /\ ScriptIdle
    /\ SubpopulationAtRest
    /\ ValuesAtRest
    /\ InterpreterAtRest
    /\ tree \in Trees
    /\ individual = 0
    /\ chromosome = [probability_both_0 |-> 0,
                     probability_both_0_OR_mut_0_break_non0 |-> 0,
                     probability_both_0_OR_mut_0_break_non0_OR_mut_non0_break_0 |-> 0]
    /\ draw = NoDraw
    /\ copies = CopiesAtRest

NextTree ==
    \/ \E p_cast \in CastBehaviours : OptimizeTree(p_cast)
    \/ DestroyTree

SpecTree == InitTree /\ [][NextTree]_vars


----------------------------------------------------------------------------
(* Fitness: the per-site contributions the specification describes *)

HomozygousFactor(m) == Denom * Denom + Denom * m.selection_coeff_
HeterozygousFactor(m) == Denom * Denom + dominance_coeff_[m.mutation_type_] * m.selection_coeff_

Copies(g, m) == Cardinality({i \in 1..Len(g) : g[i] = m})
Min(a, b) == IF a <= b THEN a ELSE b
Max(a, b) == IF a <= b THEN b ELSE a
Carried(g) == {g[i] : i \in 1..Len(g)}
Selected(g1, g2) == {m \in Carried(g1) \cup Carried(g2) : m.selection_coeff_ # 0}

\* min(a, b) matched pairs contribute (1 + s), the |a - b| others (1 + h*s)
SiteContribution(g1, g2, m) ==
    LET a == Copies(g1, m)
        b == Copies(g2, m)
    IN Power(HomozygousFactor(m), Min(a, b)) * Power(HeterozygousFactor(m), Max(a, b) - Min(a, b))

RECURSIVE ProductOver(_, _, _)
ProductOver(S, g1, g2) ==
    IF S = {} THEN 1
    ELSE LET m == CHOOSE x \in S : TRUE
         IN SiteContribution(g1, g2, m) * ProductOver(S \ {m}, g1, g2)

RECURSIVE FactorsOver(_, _, _)
FactorsOver(S, g1, g2) ==
    IF S = {} THEN 0
    ELSE LET m == CHOOSE x \in S : TRUE
         IN Max(Copies(g1, m), Copies(g2, m)) + FactorsOver(S \ {m}, g1, g2)

\* the product P of the per-site contributions, over (Denom*Denom)^MaxMut
SiteProduct(g1, g2) ==
    Normalised(ProductOver(Selected(g1, g2), g1, g2), FactorsOver(Selected(g1, g2), g1, g2))

\* at most one mutation per (position, type, selection coefficient)
NoDuplicates(g) == \A m \in Carried(g) : Copies(g, m) = 1

\* every contribution of the two genomes is positive
AllFactorsPositive(g1, g2) ==
    \A m \in Selected(g1, g2) : HomozygousFactor(m) > 0 /\ HeterozygousFactor(m) > 0

\* the fitness of individual i (from 1) as UpdateFitness stored it
FitnessEvaluated == subOp = "UpdateFitness"
StoredFitness(i) == lookup_individual_.A[i]
Individuals == 1..(Len(parent_genomes_) \div 2)
Genome1(i) == parent_genomes_[2 * i - 1]
Genome2(i) == parent_genomes_[2 * i]

\* C1: for genomes holding at most one mutation per (position, type, s), the
\* fitness is the product over the distinct mutations with s # 0 of (1 + s) when
\* the mutation is in both genomes and (1 + h*s) when it is in one, whenever
\* that product is positive.
C1_FitnessIsProductWhenPositive ==
    FitnessEvaluated =>
        \A i \in Individuals :
            (/\ NoDuplicates(Genome1(i))
             /\ NoDuplicates(Genome2(i))
             /\ SiteProduct(Genome1(i), Genome2(i)) > 0)
            => StoredFitness(i) = SiteProduct(Genome1(i), Genome2(i))

\* C2: with a copies of a mutation in one genome and b in the other, min(a, b)
\* matched pairs contribute (1 + s) each and the |a - b| unmatched copies
\* contribute (1 + h*s) each (stated where every factor is positive, so that the
\* clamp plays no part).
C2_DuplicatesMatchedPairwise ==
    FitnessEvaluated =>
        \A i \in Individuals :
            AllFactorsPositive(Genome1(i), Genome2(i))
            => StoredFitness(i) = SiteProduct(Genome1(i), Genome2(i))

\* C3: for every pair of genomes (stated for genomes without duplicates, where
\* the per-site contribution needs no pairing), the fitness is max(0, P), P the
\* product of the per-site contributions, also when some factor is zero or negative.
C3_FitnessIsClampedProduct ==
    FitnessEvaluated =>
        \A i \in Individuals :
            (NoDuplicates(Genome1(i)) /\ NoDuplicates(Genome2(i)))
            => StoredFitness(i) = Max(0, SiteProduct(Genome1(i), Genome2(i)))

----------------------------------------------------------------------------
(* Signatures and calls *)

IsCall(o) == o.kind \in {"function", "method"}

\* the signature a call was checked against
SignatureOf(o) == IF o.kind = "function" THEN BuiltInFunctionMap[o.name] ELSE sig

ArgumentErrors == {"requires at most", "missing required argument", "cannot be type",
                   "must be a singleton"}
InternalErrors == {"internal error: return value cannot be type",
                   "internal error: return value must be a singleton"}

\* the supplied arguments that fill declared slots
Declared(o) == 1..Min(Len(o.args), Len(SignatureOf(o).arg_masks_))

\* C4: a supplied argument whose mask carries the singleton modifier makes the
\* argument check raise unless its count is 1, whatever the type part of the mask.
C4_SingletonAlwaysEnforced ==
    IsCall(op) =>
        ((\E i \in Declared(op) : SignatureOf(op).arg_masks_[i].singleton /\ Count(op.args[i]) # 1)
         => op.error \in ArgumentErrors)

SatisfiesMask(mask, value) ==
    /\ value.type \in mask.types
    /\ mask.singleton => Count(value) = 1

\* C5: after every function call and method call the result is checked against
\* the return mask before it is handed to the caller: a result violating the mask
\* raises an internal error, and a value handed to the caller satisfies the mask.
C5_ReturnCheckedBeforeCaller ==
    IsCall(op) =>
        /\ (op.executed # NoValue /\ ~SatisfiesMask(SignatureOf(op).return_mask_, op.executed))
              => (op.error \in InternalErrors /\ op.result = NoValue)
        /\ op.error = ""
              => (op.result = op.executed /\ SatisfiesMask(SignatureOf(op).return_mask_, op.result))

C5_Witness ==
    /\ op.kind = "method"
    /\ op.error = "internal error: return value must be a singleton"
    /\ op.executed.type \in sig.return_mask_.types

\* the optional arguments are a trailing run, and the flag says whether there are any
OptionalsTrail(signature) ==
    /\ \A i \in 1..Len(signature.arg_masks_) : \A j \in i..Len(signature.arg_masks_) :
          signature.arg_masks_[i].optional => signature.arg_masks_[j].optional
    /\ signature.has_optional_args_ = (\E i \in 1..Len(signature.arg_masks_) : signature.arg_masks_[i].optional)

\* C6: in every signature built by AddArg and AddEllipsis the optional arguments
\* are a trailing run; once the ellipsis is added the signature never changes
\* again (no second ellipsis, no later argument); and a call that would add a
\* required argument after an optional one, anything after the ellipsis, or an
\* ellipsis after an optional argument raises and leaves the signature as it was.
C6_SignatureWellFormed ==
    /\ [](OptionalsTrail(sig))
    /\ [][sig.has_ellipsis_ => sig' = sig]_vars
    /\ [][(/\ op'.kind = "AddArg"
           /\ \/ sig.has_ellipsis_
              \/ sig.has_optional_args_ /\ ~op'.args[1].optional)
          => (op'.error # "" /\ sig' = sig)]_vars
    /\ [][(op'.kind = "AddEllipsis" /\ (sig.has_ellipsis_ \/ sig.has_optional_args_))
          => (op'.error # "" /\ sig' = sig)]_vars

C6_Witness ==
    /\ op.kind = "AddArg"
    /\ op.error # ""
    /\ Len(sig.arg_masks_) = 2
    /\ ~sig.arg_masks_[1].optional
    /\ sig.arg_masks_[2].optional
    /\ ~op.args[1].optional

\* the supplied arguments taken by the ellipsis
Extra(o) == (Len(SignatureOf(o).arg_masks_) + 1)..Len(o.args)

\* C7 as claimed: with an ellipsis, each argument beyond the declared ones must
\* be of base type: a call that passes an object-typed value in an ellipsis
\* position is rejected.
C7_EllipsisArgumentsAreBaseTyped ==
    (IsCall(op) /\ SignatureOf(op).has_ellipsis_)
    => ((\E i \in Extra(op) : op.args[i].type = "object") => op.error # "")

\* C7 as amended: with an ellipsis the argument check accepts any number of
\* arguments beyond the declared ones and raises exactly when it raises for the
\* declared arguments alone, whatever the types of the further arguments: an
\* object among them passes the check.
C7_EllipsisArgumentsUnchecked ==
    (IsCall(op) /\ SignatureOf(op).has_ellipsis_)
    => /\ (op.error \in ArgumentErrors)
             = (CheckArgumentTypes(SignatureOf(op),
                                   [i \in Declared(op) |-> op.args[i]], 0) # "")
       /\ op.error # "requires at most"

C7_Witness ==
    /\ op.kind = "method"
    /\ sig.has_ellipsis_
    /\ \E i \in Extra(op) : op.args[i].type = "object"
    /\ op.error = ""

\* C8: right after SwapChildAndParentGenomes the parent array holds exactly the
\* genomes, in the same order, that the child array held right before, and the
\* child array has 2 * subpop_size_ slots.
C8_SwapPublishesChildren ==
    [][subOp' = "SwapChildAndParentGenomes"
       => (parent_genomes_' = child_genomes_ /\ Len(child_genomes_') = 2 * subpop_size_')]_vars

C8_Witness ==
    /\ subOp = "SwapChildAndParentGenomes"
    /\ parent_genomes_ # child_genomes_
    /\ \E i \in 1..Len(parent_genomes_) : parent_genomes_[i] # EmptyGenome

----------------------------------------------------------------------------
(* c() *)

IsCallOfC(o) == o.kind = "function" /\ o.name = "c"
Arguments(o) == 1..Len(o.args)

\* the highest type among the arguments of a call, NULL when there is none
HighestArgumentType(o) ==
    CHOOSE t \in {"NULL"} \cup {o.args[a].type : a \in Arguments(o)} :
        \A a \in Arguments(o) : ValueTypeRank[o.args[a].type] <= ValueTypeRank[t]

\* the number of elements of the arguments before argument a
RECURSIVE CountBefore(_, _)
CountBefore(args, a) == IF a <= 1 THEN 0 ELSE CountBefore(args, a - 1) + Count(args[a - 1])

\* C9: c() of arguments of base type returns a value of the highest type among
\* them under NULL < logical < int < float < string, holding the elements of all
\* arguments in argument order converted to that type, so that its count is the
\* sum of their counts; with only NULL arguments it returns NULL.
C9_ConcatenatePromotes ==
    (IsCallOfC(op) /\ \A a \in Arguments(op) : op.args[a].type # "object")
    => /\ op.error = ""
       /\ op.result.type = HighestArgumentType(op)
       /\ Count(op.result) = CountBefore(op.args, Len(op.args) + 1)
       /\ \A a \in Arguments(op) : \A i \in 1..Count(op.args[a]) :
             op.result.elems[CountBefore(op.args, a) + i]
                = ValueAtIndexAs(op.result.type, op.args[a], i - 1)
       /\ (\A a \in Arguments(op) : op.args[a].type = "NULL") => op.result = ScriptValue_NULL

C9_Witness ==
    /\ IsCallOfC(op)
    /\ Len(op.args) = 2
    /\ op.args[1].type = "logical" /\ Count(op.args[1]) = 2
    /\ op.args[2].type = "float"
    /\ op.error = ""
    /\ op.result.type = "float"
    /\ Count(op.result) = 3

\* the elements of the arguments from argument a on, as they are
RECURSIVE ElementsFrom(_, _)
ElementsFrom(args, a) == IF a > Len(args) THEN << >> ELSE args[a].elems \o ElementsFrom(args, a + 1)

\* C10: c() of object values, with or without NULL, returns the object vector of
\* their elements in argument order; c() mixing an object with a logical, int,
\* float or string value raises 'cannot be mixed'.
C10_ObjectsConcatenateOrRaise ==
    (IsCallOfC(op) /\ \E a \in Arguments(op) : op.args[a].type = "object")
    => IF \A a \in Arguments(op) : op.args[a].type \in {"object", "NULL"}
       THEN /\ op.error = ""
            /\ op.result = Value("object", ElementsFrom(op.args, 1))
       ELSE op.error = "cannot be mixed"

----------------------------------------------------------------------------
(* Claims about the value layer (SpecValue) *)

\* the heap slots that hold a singleton-specialised constant
SingletonConstants == {id \in DOMAIN values : values[id].class \in SingletonConstClasses}

\* the last operation was one of the in-place changes, on a singleton constant
ProhibitedActionTried ==
    /\ valueOp.name \in {"SetValueAtIndex", "PushValueFromIndexOfEidosValue", "Sort"}
    /\ valueOp.before.class \in SingletonConstClasses

\* C11: a singleton-specialised constant (int, float, object) has count 1 for
\* its whole life and is not mutable; SetValueAtIndex,
\* PushValueFromIndexOfEidosValue and Sort on it raise and leave it unchanged;
\* MutableCopy() returns a separate mutable value that starts with the same
\* single element, and no operation on another value changes the constant.
C11_SingletonConstantsAreImmutable ==
    /\ [](/\ \A id \in SingletonConstants :
                 /\ EidosValue_Count(values[id]) = 1
                 /\ Len(values[id].elems) = 1
                 /\ ~IsMutable(values[id])
          /\ ProhibitedActionTried =>
                 /\ valueOp.error # ""
                 /\ values[valueOp.self] = valueOp.before
          /\ (valueOp.name = "MutableCopy" /\ valueOp.before.class \in SingletonConstClasses) =>
                 /\ valueOp.result # valueOp.self
                 /\ values[valueOp.result].class = VectorClassOf(valueOp.before.class)
                 /\ values[valueOp.result].elems = valueOp.before.elems
                 /\ IsMutable(values[valueOp.result])
                 /\ values[valueOp.self] = valueOp.before)
    /\ [][\A id \in SingletonConstants :
              \/ values'[id] = Unallocated /\ valueOp'.name = "Destruct" /\ valueOp'.self = id
              \/ /\ values'[id].class = values[id].class
                 /\ values'[id].elems = values[id].elems]_vars

\* a copy made by MutableCopy() has been changed in place while the constant
\* it was copied from still exists, and a prohibited action was tried before
C11_Witness ==
    /\ valueOp.name = "PushValueFromIndexOfEidosValue"
    /\ valueOp.error = ""
    /\ values[valueOp.self].class = "Int_vector"
    /\ \E id \in SingletonConstants :
           /\ values[id].class = "Int_singleton_const"
           /\ valueOp.before.elems = values[id].elems
           /\ values[valueOp.self].elems # values[id].elems

\* C12: a value is in exactly one of the three ownership states: its
\* external-temporary flag and its external-permanent flag are never both set,
\* whatever sequence of SetExternalTemporary / SetExternalPermanent is applied.
C12_OneOwnershipState ==
    \A id \in DOMAIN values :
        Allocated(id) => ~(IsExternalTemporary(values[id]) /\ IsExternalPermanent(values[id]))

\* the number of references to element e: the allocator's and the values'
References(e) ==
    (IF elements[e].allocator_holds THEN 1 ELSE 0)
    + Cardinality({p \in (DOMAIN values) \X (1..MaxLen) :
                       /\ p[2] <= Len(HeldElements(values[p[1]]))
                       /\ HeldElements(values[p[1]])[p[2]] = e})

\* C13: an internally managed element starts with refcount 1, each Retain adds
\* one and each Release removes one (so the count is the number of references
\* held), it is destroyed exactly when the count reaches 0, once, and is not
\* retained or released afterwards; an externally managed element is never
\* changed or destroyed by Retain and Release.
C13_RefcountLifecycle ==
    /\ [](\A e \in ElementIds :
             IF elements[e].internal
             THEN /\ elements[e].refcount_ = References(e)
                  /\ elements[e].destroyed = (IF elements[e].refcount_ = 0 THEN 1 ELSE 0)
                  /\ valueOp.name = "" => elements[e].refcount_ = 1
             ELSE /\ elements[e].refcount_ = 0
                  /\ elements[e].destroyed = 0)
    /\ [][\A e \in ElementIds :
              elements[e].destroyed > 0 => elements'[e] = elements[e]]_vars

\* the last reference to an internal element, held by a value object after the
\* allocator released its own, has gone with the value and destroyed the element
C13_Witness ==
    /\ valueOp.name = "Destruct"
    /\ TypeOfClass(valueOp.before.class) = "object"
    /\ \E e \in ElementIds :
           /\ elements[e].internal
           /\ valueOp.before.elems = <<e>>
           /\ elements[e].destroyed = 1

----------------------------------------------------------------------------
(* Claims about the symbol table (SpecSymbols) *)

\* the statement that the step executes
Executed == interp'.statement

\* the step left the symbol table and every value as they were
TableUntouched == symbols' = symbols /\ values' = values

\* C14: T, F, NULL, INF, NAN, E, PI and every name defined by defineConstant
\* are protected: an assignment to such a name raises, defineConstant on a name
\* that is already a constant or a variable raises 'is already defined',
\* rm(name) raises, and after each failed operation the name is bound as before.
C14_ConstantsAreProtected ==
    [][\A name \in SymbolNames :
          Executed.name = name =>
             /\ (IsConstant(symbols, name)
                   /\ Executed.kind \in {"Assign", "AssignIdentifier", "AssignSubscript"})
                => (Executed.error # "" /\ TableUntouched)
             /\ (ContainsSymbol(symbols, name) /\ Executed.kind = "defineConstant")
                => (Executed.error = "is already defined" /\ TableUntouched)
             /\ (IsConstant(symbols, name) /\ Executed.kind = "rm")
                => (Executed.error # "" /\ TableUntouched)]_vars

\* rm('x') was refused for a constant made by defineConstant, which is still
\* defined
C14_Witness ==
    /\ interp.statement.kind = "rm"
    /\ interp.statement.name = "x"
    /\ interp.statement.was = "constant"
    /\ interp.statement.error # ""
    /\ symbols.constants["x"] # 0

BoundNames(table) == {name \in UserNames : ContainsSymbol(table, name)}
ContentOf(table, heap, name) == heap[SlotOf(table, name)].elems

\* C18: variables never share mutable storage, with each other or with a
\* literal cached in the syntax tree: a statement about one name changes the
\* value of no other name, a cached literal keeps its value, and an assignment
\* of a literal binds the literal's original value every time it is executed.
C18_NoSharedMutableStorage ==
    /\ [](/\ \A n1 \in BoundNames(symbols), n2 \in BoundNames(symbols) :
                 (n1 # n2 /\ SlotOf(symbols, n1) = SlotOf(symbols, n2))
                 => ~IsMutable(values[SlotOf(symbols, n1)])
          /\ \A name \in BoundNames(symbols), token \in LiteralTokens :
                 SlotOf(symbols, name) = interp.cached_value_[token]
                 => ~IsMutable(values[SlotOf(symbols, name)])
          /\ \A token \in LiteralTokens :
                 interp.cached_value_[token] # 0 =>
                    /\ values[interp.cached_value_[token]].class = LiteralValue(token).class
                    /\ values[interp.cached_value_[token]].elems = LiteralValue(token).elems
          /\ (interp.statement.kind = "Assign" /\ interp.statement.error = "") =>
                 /\ values[SlotOf(symbols, interp.statement.name)].class
                        = LiteralValue(interp.statement.token).class
                 /\ ContentOf(symbols, values, interp.statement.name)
                        = LiteralValue(interp.statement.token).elems)
    /\ [][\A name \in BoundNames(symbols) :
              name # Executed.name =>
                 /\ name \in BoundNames(symbols')
                 /\ ContentOf(symbols', values', name) = ContentOf(symbols, values, name)]_vars

\* after y = x, x[0] = 'bar' has changed x in place and y still holds 'foo'
C18_Witness ==
    /\ TreeOptimized
    /\ interp.statement.kind = "AssignSubscript"
    /\ interp.statement.name = "x"
    /\ interp.statement.error = ""
    /\ BoundNames(symbols) = {"x", "y"}
    /\ \A name \in UserNames : values[SlotOf(symbols, name)].class = "String"
    /\ ContentOf(symbols, values, "x") = <<"bar">>
    /\ ContentOf(symbols, values, "y") = <<"foo">>
    /\ values[interp.cached_value_["'foo'"]].elems = <<"foo">>

----------------------------------------------------------------------------
\* what the evaluated script must have done, stated on the script's shape
\* and not by the interpreter's recursion

\* the number of iterations a loop makes when nothing leaves it early
Trips(keyword, n) == IF keyword = "do" /\ n = 0 THEN 1 ELSE n

OuterTrips == Trips(block.script.outer, block.script.n1)
InnerTrips == Trips(block.script.inner, block.script.n2)

LogEntry(id, iterations) == [id |-> id, iterations |-> iterations]

Ran(id, iterations) ==
    \E p \in DOMAIN block.evaluation.log : block.evaluation.log[p] = LogEntry(id, iterations)

\* the place of a log entry in the order of the script's text and iterations
TextOrder(entry) ==
    LET width == 2 * MaxIterations + 2
        its == entry.iterations
    IN  CASE entry.id = "a" -> 0
          [] entry.id = "b" -> its[1] * width
          [] entry.id = "c" -> its[1] * width + 2 * its[2] - 1
          [] entry.id = "d" -> its[1] * width + 2 * its[2]
          [] entry.id = "e" -> its[1] * width + width - 1
          [] entry.id = "f" -> (MaxIterations + 1) * width

LogInTextOrder ==
    \A p, q \in DOMAIN block.evaluation.log :
        p < q => TextOrder(block.evaluation.log[p]) < TextOrder(block.evaluation.log[q])

\* the log is exactly the statements for which expected(id, i, j) holds
LogIs(expected(_, _, _)) ==
    /\ LogInTextOrder
    /\ Ran("a", << >>) <=> expected("a", 0, 0)
    /\ Ran("f", << >>) <=> expected("f", 0, 0)
    /\ \A i \in 1..MaxIterations :
          /\ Ran("b", <<i>>) <=> expected("b", i, 0)
          /\ Ran("e", <<i>>) <=> expected("e", i, 0)
          /\ \A j \in 1..MaxIterations :
                /\ Ran("c", <<i, j>>) <=> expected("c", i, j)
                /\ Ran("d", <<i, j>>) <=> expected("d", i, j)

FlagsClear ==
    /\ ~block.evaluation.next_statement_hit_
    /\ ~block.evaluation.break_statement_hit_

\* with next or break under the if: every iteration the loops' conditions
\* allow, less what the control statement skips
ExpectedOfLoopControl(id, i, j) ==
    LET s == block.script
        isBreak == s.control = BreakStatement
        isNext == s.control = NextStatement
    IN  IF s.where = "inner"
        THEN CASE id \in {"a", "f"} -> TRUE
               [] id \in {"b", "e"} -> i <= OuterTrips
               [] id = "c" -> i <= OuterTrips /\ j <= InnerTrips /\ (isBreak => j <= s.k)
               [] id = "d" -> /\ i <= OuterTrips /\ j <= InnerTrips
                              /\ (isBreak => j < s.k) /\ (isNext => j # s.k)
        ELSE CASE id \in {"a", "f"} -> TRUE
               [] id = "b" -> i <= OuterTrips /\ (isBreak => i <= s.k)
               [] id \in {"c", "d"} -> /\ i <= OuterTrips /\ j <= InnerTrips
                                       /\ (isBreak => i <= s.k)
               [] id = "e" -> /\ i <= OuterTrips
                              /\ (isBreak => i < s.k) /\ (isNext => i # s.k)

\* C16: a break inside a for, while or do-while loop ends the innermost
\* enclosing loop at once and a next skips the rest of the current iteration
\* and goes on with the following one; the statements outside that loop run
\* as if nothing happened, and when the script is done neither flag is set.
C16_BreakAndNextInLoops ==
    (block.done /\ block.script.control \in {NextStatement, BreakStatement}) =>
        /\ LogIs(ExpectedOfLoopControl)
        /\ FlagsClear
        /\ ~block.evaluation.returned
        /\ block.evaluation.error = ""
        /\ block.evaluation.result = "f"

\* a break cut the inner loop short in two iterations of the outer loop, and
\* the outer loop's body went on after it
C16_Witness ==
    /\ block.done
    /\ block.script.control = BreakStatement
    /\ block.script.where = "inner"
    /\ block.script.k < InnerTrips
    /\ OuterTrips >= 2
    /\ Ran("c", <<2, block.script.k>>)
    /\ ~Ran("d", <<2, block.script.k>>)
    /\ Ran("e", <<2>>)

\* is the return under the if reached?
ReturnReached ==
    IF block.script.where = "inner"
    THEN OuterTrips >= 1 /\ block.script.k <= InnerTrips
    ELSE block.script.k <= OuterTrips

\* with return under the if: everything up to the return, nothing after it
ExpectedOfReturn(id, i, j) ==
    LET s == block.script
    IN  IF ~ReturnReached
        THEN CASE id \in {"a", "f"} -> TRUE
               [] id \in {"b", "e"} -> i <= OuterTrips
               [] id \in {"c", "d"} -> i <= OuterTrips /\ j <= InnerTrips
        ELSE IF s.where = "inner"
        THEN CASE id = "a" -> TRUE
               [] id = "b" -> i = 1
               [] id = "c" -> i = 1 /\ j <= s.k
               [] id = "d" -> i = 1 /\ j < s.k
               [] id \in {"e", "f"} -> FALSE
        ELSE CASE id = "a" -> TRUE
               [] id = "b" -> i <= s.k
               [] id \in {"c", "d"} -> i <= s.k /\ j <= InnerTrips
               [] id = "e" -> i < s.k
               [] id = "f" -> FALSE

\* C17: a return stops the whole script block at once, from inside loops and
\* branches of an if too: no later statement and no later iteration runs, and
\* the block's value is the returned value, NULL when return has no value.
C17_ReturnStopsTheBlock ==
    (block.done /\ block.script.control.type = "return") =>
        /\ LogIs(ExpectedOfReturn)
        /\ FlagsClear
        /\ block.evaluation.error = ""
        /\ block.evaluation.returned = ReturnReached
        /\ block.evaluation.result = IF ReturnReached THEN block.script.control.value ELSE "f"

\* a return with a value left two nested loops that both had iterations to go
C17_Witness ==
    /\ block.done
    /\ block.script.control = ReturnStatement("v")
    /\ block.script.where = "inner"
    /\ block.script.k < InnerTrips
    /\ OuterTrips >= 2
    /\ Ran("c", <<1, block.script.k>>)
    /\ ~Ran("f", << >>)
    /\ block.evaluation.result = "v"

----------------------------------------------------------------------------
(* Claims about rep, repEach (SpecRep) and seq (SpecSeq) *)

\* a count argument with a negative element
HasNegativeCount(value) ==
    value.type = "int" /\ \E i \in 1..Count(value) : value.elems[i].v < 0

IsCallOfRep(o) ==
    o.kind = "function" /\ o.name \in {"rep", "repEach"} /\ Len(o.args) = 2

\* C19: rep(x, n) with n < 0 and repEach(x, n) with a negative element in n
\* raise, whatever x is (NULL and empty vectors too), and produce no result.
C19_NegativeCountRaises ==
    (IsCallOfRep(op) /\ HasNegativeCount(op.args[2]))
    => /\ op.error # ""
       /\ op.result = NoValue

\* a call of seq whose arguments pass the argument check
IsCallOfSeq(o) ==
    /\ o.kind = "function"
    /\ o.name = "seq"
    /\ CheckArguments(BuiltInFunctionMap["seq"], o.args) = ""

\* the type of the result the claim asks for, and the arguments as numbers of
\* that type (a float in tenths)
SeqType(o) == IF \E a \in 1..Len(o.args) : o.args[a].type = "float" THEN "float" ELSE "int"
SeqArg(o, a) == ValueAtIndexAs(SeqType(o), o.args[a], 0).v
SeqOne(o) == IF SeqType(o) = "float" THEN 10 ELSE 1
SeqBy(o) ==
    IF Len(o.args) = 3 THEN SeqArg(o, 3)
    ELSE IF SeqArg(o, 1) < SeqArg(o, 2) THEN SeqOne(o) ELSE -SeqOne(o)

\* a, a + by, a + 2 * by, ... as far as b
SeqTerms(a, b, by) ==
    [k \in 1..((Abs(b - a) \div Abs(by)) + 1) |-> Element("", a + (k - 1) * by)]

SeqByPointsAway(o) ==
    \/ SeqArg(o, 1) < SeqArg(o, 2) /\ SeqBy(o) < 0
    \/ SeqArg(o, 1) > SeqArg(o, 2) /\ SeqBy(o) > 0

\* C20: seq(a, b, by) raises when by = 0 and when the sign of by points away
\* from b; otherwise it returns a, a + by, a + 2 * by, ... with exactly the
\* terms that do not pass b, by being +1 when it is left out and a < b and -1
\* when it is left out otherwise; the result is int when every argument is
\* int and float when one is float.
C20_SeqReturnsTheTerms ==
    IsCallOfSeq(op)
    => IF SeqBy(op) = 0 \/ SeqByPointsAway(op)
       THEN /\ op.error \notin {""} \cup Undefined
            /\ op.result = NoValue
       ELSE /\ op.error = ""
            /\ op.result = Value(SeqType(op), SeqTerms(SeqArg(op, 1), SeqArg(op, 2), SeqBy(op)))

----------------------------------------------------------------------------
(* Claims about the order of the argument check (SpecSig) *)

\* the three kinds of violation of a signature by an argument list
CountViolated(signature, args) ==
    \/ ~signature.has_ellipsis_ /\ Len(args) > Len(signature.arg_masks_)
    \/ \E i \in DOMAIN signature.arg_masks_ :
          i > Len(args) /\ ~signature.arg_masks_[i].optional

TypeViolated(signature, args) ==
    \E i \in DOMAIN signature.arg_masks_ :
        /\ i <= Len(args)
        /\ signature.arg_masks_[i].types # kValueMaskAny
        /\ args[i].type \notin signature.arg_masks_[i].types

\* (the constraint as the check tests it, on masks other than "any" only)
SingletonViolated(signature, args) ==
    \E i \in DOMAIN signature.arg_masks_ :
        /\ i <= Len(args)
        /\ signature.arg_masks_[i].types # kValueMaskAny
        /\ signature.arg_masks_[i].singleton
        /\ Count(args[i]) # 1

\* C21: the argument check runs in three stages, the argument count, then
\* every argument's type, then every argument's singleton constraint; a call
\* that violates more than one raises the error of the earliest stage.
C21_ArgumentCheckInStages ==
    IsCall(op) =>
        LET signature == SignatureOf(op)
        IN  IF CountViolated(signature, op.args)
            THEN op.error \in {"requires at most", "missing required argument"}
            ELSE IF TypeViolated(signature, op.args)
            THEN op.error = "cannot be type"
            ELSE SingletonViolated(signature, op.args) => op.error = "must be a singleton"

----------------------------------------------------------------------------
(* Symmetry of the fitness kernel (SpecFit) *)

\* C25: fitness is symmetric in the two genomes: for every pair of parent
\* genomes FitnessOfIndividualWithGenomeIndices(i, j) equals
\* FitnessOfIndividualWithGenomeIndices(j, i), also when a position carries
\* several mutations and when a factor is negative.
C25_FitnessIsSymmetric ==
    FitnessEvaluated =>
        \A i \in Individuals :
            StoredFitness(i)
                = FitnessOfIndividualWithGenomeIndices(parent_genomes_, 2 * (i - 1) + 1, 2 * (i - 1))

----------------------------------------------------------------------------
(* Claims about the built-in functions at large (SpecBuiltIn, SpecSeq) *)

\* a function call whose arguments passed the argument check
IsCheckedFunctionCall(o) ==
    /\ o.kind = "function"
    /\ o.name \in DOMAIN BuiltInFunctionMap
    /\ CheckArguments(BuiltInFunctionMap[o.name], o.args) = ""

\* C29: for every function of the built-in function map and every argument
\* list that passes the argument check, the call either raises before the
\* return check or hands the return check a result that is not null and
\* satisfies the return mask of the function: the return check never raises
\* its internal error.
C29_ReturnCheckNeverFails ==
    IsCheckedFunctionCall(op)
    => /\ op.error \notin InternalErrors
       /\ op.error = "" => /\ op.executed # NoValue
                           /\ SatisfiesMask(BuiltInFunctionMap[op.name].return_mask_, op.executed)
                           /\ op.result = op.executed

\* abs() of an int vector: the return type is not known beforehand and the
\* function allocates the result itself
C29_Witness ==
    /\ IsCheckedFunctionCall(op)
    /\ op.name = "abs"
    /\ op.args[1].type = "int"
    /\ op.error = ""
    /\ op.result.type = "int"
    /\ Count(op.result) = 2

\* the elements of a result lie between a and b
SeqWithin(o) ==
    \A i \in 1..Count(o.result) :
        /\ Min(SeqArg(o, 1), SeqArg(o, 2)) <= o.result.elems[i].v
        /\ o.result.elems[i].v <= Max(SeqArg(o, 1), SeqArg(o, 2))

\* C30: for all int arguments that pass its checks, endpoints at or next to
\* the largest and smallest int included, seq(a, b, by) terminates and never
\* produces an element beyond b: the loop counter does not overflow.
C30_SeqTerminatesWithoutOverflow ==
    (IsCallOfSeq(op) /\ SeqType(op) = "int")
    => /\ op.error \notin Undefined
       /\ op.error = "" => SeqWithin(op)

----------------------------------------------------------------------------
(* Claims about the joint draw of the counts (SpecDrawCounts) *)

\* the four cases the one uniform draw u selects
BothZero == draw.u <= chromosome.probability_both_0
BreakOnly == /\ chromosome.probability_both_0 < draw.u
             /\ draw.u <= chromosome.probability_both_0_OR_mut_0_break_non0
MutOnly == /\ chromosome.probability_both_0_OR_mut_0_break_non0 < draw.u
           /\ draw.u <= chromosome.probability_both_0_OR_mut_0_break_non0_OR_mut_non0_break_0
BothNonZero == chromosome.probability_both_0_OR_mut_0_break_non0_OR_mut_non0_break_0 < draw.u

\* C22: DrawMutationAndBreakpointCounts makes one uniform draw, which selects
\* one of four cases that exclude one another; it returns (0, 0) in the first
\* case only, (0, b) with b >= 1 in the second, (m, 0) with m >= 1 in the
\* third and (m, b) with m >= 1 and b >= 1 in the fourth.
C22_OneDrawSelectsTheCase ==
    draw.uniforms > 0
    => /\ draw.uniforms = 1
       /\ Cardinality({k \in 1..4 : <<BothZero, BreakOnly, MutOnly, BothNonZero>>[k]}) = 1
       /\ BothZero <=> (draw.mut_count = 0 /\ draw.break_count = 0)
       /\ BreakOnly <=> (draw.mut_count = 0 /\ draw.break_count >= 1)
       /\ MutOnly <=> (draw.mut_count >= 1 /\ draw.break_count = 0)
       /\ BothNonZero <=> (draw.mut_count >= 1 /\ draw.break_count >= 1)

C22_Witness ==
    /\ draw.uniforms = 1
    /\ MutOnly
    /\ draw.mut_count = 2
    /\ draw.break_count = 0
    /\ chromosome.probability_both_0 > 0

----------------------------------------------------------------------------
(* Claims about drawing individuals (SpecDraw) and about copies of a         *)
(* Subpopulation (SpecCopies)                                                *)

\* C26: after a Subpopulation is copy-constructed or assigned from another,
\* the two objects do not share the lookup table: no DrawIndividual uses a
\* table that a call on the other object has freed, and no table is freed
\* twice.
C26_CopiesDoNotShareTheSampler ==
    copies.fault \notin {"used after free", "freed twice"}

\* C27: after construction with size N and any sequence of UpdateFitness,
\* SwapChildAndParentGenomes and DrawIndividual, DrawIndividual returns an
\* index i with 0 <= i < (number of parent genomes) / 2, so the genomes 2i and
\* 2i + 1 are in the parent array.
C27_DrawnIndividualExists ==
    subOp = "DrawIndividual"
    => /\ 0 <= individual
       /\ individual < Len(parent_genomes_) \div 2
       /\ 2 * individual + 1 < Len(parent_genomes_)

C27_Witness ==
    /\ subOp = "DrawIndividual"
    /\ individual = 1
    /\ lookup_individual_.A # [i \in 1..subpop_size_ |-> One]
    /\ \E i \in 1..Len(parent_genomes_) : parent_genomes_[i] # EmptyGenome

----------------------------------------------------------------------------
(* Claims about the syntax tree (SpecTree) *)

\* the node of a call and its callee, the literal nodes
CallNodes == {n \in 1..Len(tree.nodes) :
                 /\ tree.nodes[n].token_type = "kTokenLParen"
                 /\ Len(tree.nodes[n].children_) >= 1
                 /\ tree.nodes[tree.nodes[n].children_[1]].token_type = "kTokenIdentifier"}
Callee(n) == tree.nodes[tree.nodes[n].children_[1]].token_string
NumberNodes == {n \in 1..Len(tree.nodes) : tree.nodes[n].token_type = "kTokenNumber"}

\* C23: tree optimization raises 'unrecognized function name' for every call
\* whose callee is an identifier that is not a registered function, the names
\* of the zero-generation functions excepted.
C23_UnknownCalleesRaise ==
    (tree.optimized > 0 /\ ~tree.destroyed)
    => \A n \in CallNodes :
           (Callee(n) \notin DOMAIN BuiltInFunctionMap
               /\ Callee(n) \notin ZeroGenerationFunctionNames)
           <=> tree.error = "unrecognized function name"

\* a literal with a negative exponent
RECURSIVE HasNegativeExponent(_)
HasNegativeExponent(str) ==
    /\ Len(str) >= 2
    /\ \/ (str[1] \in {"e", "E"} /\ str[2] = "-")
       \/ HasNegativeExponent(Tail(str))

\* the type the literal of a number token has
TypeOfLiteral(str) ==
    IF Find(str, ".") \/ HasNegativeExponent(str) THEN "float"
    ELSE IF Find(str, "e") \/ Find(str, "E")
    THEN IF FitsInt(strtod(str)) THEN "int" ELSE "float"
    ELSE "int"

\* C24: a number literal is cached as float when it has a fractional part or
\* a negative exponent; with an exponent and neither of those it is cached as
\* int when its value fits an int and as float otherwise; plain digits are
\* cached as int.
C24_LiteralTypes ==
    (tree.optimized > 0 /\ ~tree.destroyed)
    => \A n \in NumberNodes :
           /\ tree.nodes[n].cached_value_ # 0
           /\ tree.heap[tree.nodes[n].cached_value_].value.type
                  = TypeOfLiteral(tree.nodes[n].token_string)

\* C28: whatever the tree and the number of OptimizeTree calls, destroying the
\* root deletes every value the optimizer allocated exactly once: none is
\* deleted twice and none is left.
C28_EveryCachedValueDeletedOnce ==
    tree.destroyed => \A v \in 1..Len(tree.heap) : tree.heap[v].deleted = 1

====
